---- MODULE Spec2Model ----
(***************************************************************************)
(* The checkpointed account cache of cita-executor                         *)
(* (core/src/state/mod.rs): State<B>, AccountEntry and the operations that *)
(* read, mutate, checkpoint and commit accounts.                           *)
(*                                                                         *)
(* Hashes are modelled as injective tags of what they hash: a trie root    *)
(* is the content of the trie it names, Keccak(b) is the tagged blob b.     *)
(* Option<T> is a sequence: <<>> is None, <<x>> is Some(x).                *)
(***************************************************************************)
EXTENDS Integers, Sequences, FiniteSets, TLC

VARIABLES
    root,                \* State.root: the top trie the root hash names
    db,                  \* State.db: the backend (resolvable roots, stored blobs)
    cache,               \* State.cache: Address -> Option<AccountEntry>
    checkpoints,         \* State.checkpoints: Seq of frames
    account_start_nonce, \* State.account_start_nonce
    status,              \* "ok" | "panicked" | "dropped" | "bad_root"
    last,                \* the last operation that ran and its address
    snaps,               \* reads and cache recorded at each checkpoint()
    plain,               \* the same run without its outermost checkpoint
    reverted,            \* a revert restored a slot since the cache was last empty
    steps,               \* number of operations run so far
    limit,               \* the number of operations this run may take
    focus,               \* the addresses this run's operations are given
    twin                 \* the other engine, once the engine has been cloned

vars == <<root, db, cache, checkpoints, account_start_nonce, status, last,
          snaps, plain, reverted, steps, limit, focus, twin>>

----------------------------------------------------------------------------
(* Bounds and input domains *)

MaxSteps == 4               \* operations of a run over every address
MaxDeepSteps == 5           \* operations of a run over one address
MaxCloneSteps == 4          \* operations of a run over two engines
MaxNestedSteps == 6         \* operations of a run with nested checkpoints
MaxFaultySteps == 3         \* operations of a run over a backend that may fail

Addresses == {"a1", "a2"}
Keys == {"k1"}
Values == {0, 1}            \* H256 storage values; 0 is H256::new()
Blobs == {<<1, 2, 3>>}      \* non-empty byte strings given to init_code/abi
NonceOffsets == {0, 1}
StartNonces == {1}

NoCell == 0 - 1             \* a key without a cell in the storage overlay
EMPTY_BYTES == <<>>

None == <<>>
Some(x) == <<x>>
is_some(o) == o # <<>>
unwrap(o) == o[1]

----------------------------------------------------------------------------
(* External collaborators: hash function, account record (state/account.rs) *)

Keccak(blob) == <<"keccak", blob>>
HASH_EMPTY == Keccak(EMPTY_BYTES)

EmptyStorage == [k \in Keys |-> 0]
EmptyOverlay == [k \in Keys |-> NoCell]
EmptyTrie == [a \in Addresses |-> None]

Account_new_basic(nonce) ==
    [nonce |-> nonce, storage_root |-> EmptyStorage,
     storage_overlay |-> EmptyOverlay,
     code_hash |-> HASH_EMPTY, code_cache |-> Some(EMPTY_BYTES), code_filth |-> "Clean",
     abi_hash |-> HASH_EMPTY, abi_cache |-> Some(EMPTY_BYTES), abi_filth |-> "Clean"]

Account_new_contract(nonce) ==
    [nonce |-> nonce, storage_root |-> EmptyStorage,
     storage_overlay |-> EmptyOverlay,
     code_hash |-> HASH_EMPTY, code_cache |-> Some(EMPTY_BYTES), code_filth |-> "Clean",
     abi_hash |-> HASH_EMPTY, abi_cache |-> Some(EMPTY_BYTES), abi_filth |-> "Clean"]

\* the wire format: nonce, storage_root, code_hash, abi_hash
Account_rlp(acc) ==
    [nonce |-> acc.nonce, storage_root |-> acc.storage_root,
     code_hash |-> acc.code_hash, abi_hash |-> acc.abi_hash]

Account_from_rlp(r) ==
    [nonce |-> r.nonce, storage_root |-> r.storage_root,
     storage_overlay |-> EmptyOverlay,
     code_hash |-> r.code_hash,
     code_cache |-> IF r.code_hash = HASH_EMPTY THEN Some(EMPTY_BYTES) ELSE None,
     code_filth |-> "Clean",
     abi_hash |-> r.abi_hash,
     abi_cache |-> IF r.abi_hash = HASH_EMPTY THEN Some(EMPTY_BYTES) ELSE None,
     abi_filth |-> "Clean"]

Account_is_cached(acc) == is_some(acc.code_cache)
Account_is_abi_cached(acc) == is_some(acc.abi_cache)

\* the blob stored in the account's view of the backend under key `hash`
AccountDbGet(backend, a, hash) ==
    IF \E b \in Blobs : <<a, b>> \in backend.blobs /\ Keccak(b) = hash
    THEN Some(CHOOSE b \in Blobs : <<a, b>> \in backend.blobs /\ Keccak(b) = hash)
    ELSE None

Account_cache_code(acc, backend, a) ==
    IF Account_is_cached(acc) THEN acc
    ELSE [acc EXCEPT !.code_cache = AccountDbGet(backend, a, acc.code_hash)]

Account_cache_abi(acc, backend, a) ==
    IF Account_is_abi_cached(acc) THEN acc
    ELSE [acc EXCEPT !.abi_cache = AccountDbGet(backend, a, acc.abi_hash)]

Account_code(acc) == acc.code_cache
Account_abi(acc) == acc.abi_cache
Account_code_size(acc) ==
    IF is_some(acc.code_cache) THEN Some(Len(unwrap(acc.code_cache))) ELSE None
Account_abi_size(acc) ==
    IF is_some(acc.abi_cache) THEN Some(Len(unwrap(acc.abi_cache))) ELSE None

Account_is_null(acc, start_nonce) ==
    acc.nonce = start_nonce /\ acc.code_hash = HASH_EMPTY /\ acc.abi_hash = HASH_EMPTY

Account_inc_nonce(acc) == [acc EXCEPT !.nonce = @ + 1]

Account_set_storage(acc, key, value) ==
    [acc EXCEPT !.storage_overlay[key] = value]

Account_cached_storage_at(acc, key) ==
    IF acc.storage_overlay[key] = NoCell THEN None ELSE Some(acc.storage_overlay[key])

\* storage_at: the overlay first, the per-account trie on a miss; a trie read
\* populates the overlay.  Returns the record and the value.
Account_storage_at(acc, key) ==
    IF is_some(Account_cached_storage_at(acc, key))
    THEN [acc |-> acc, value |-> acc.storage_overlay[key]]
    ELSE [acc |-> [acc EXCEPT !.storage_overlay[key] = acc.storage_root[key]],
          value |-> acc.storage_root[key]]

\* init and reset: the hash is cleared, the blob is pending until commit
Account_init_code(acc, code) ==
    [acc EXCEPT !.code_hash = HASH_EMPTY, !.code_cache = Some(code), !.code_filth = "Dirty"]

Account_reset_code(acc, code) == Account_init_code(acc, code)

Account_init_abi(acc, abi) ==
    [acc EXCEPT !.abi_hash = HASH_EMPTY, !.abi_cache = Some(abi), !.abi_filth = "Dirty"]

Account_reset_abi(acc, abi) == Account_init_abi(acc, abi)

\* every overlay cell is written to the per-account trie
Account_commit_storage(acc) ==
    [acc EXCEPT !.storage_root =
        [k \in Keys |-> IF acc.storage_overlay[k] = NoCell THEN @[k]
                        ELSE acc.storage_overlay[k]]]

Account_commit_code(acc) ==
    IF acc.code_filth = "Dirty" /\ is_some(acc.code_cache)
    THEN [acc EXCEPT !.code_hash = Keccak(unwrap(acc.code_cache)), !.code_filth = "Clean"]
    ELSE acc

Account_commit_abi(acc) ==
    IF acc.abi_filth = "Dirty" /\ is_some(acc.abi_cache)
    THEN [acc EXCEPT !.abi_hash = Keccak(unwrap(acc.abi_cache)), !.abi_filth = "Clean"]
    ELSE acc

\* the blobs a commit of `acc` writes to the account's view of the backend
Account_pending_blobs(acc, a) ==
    (IF acc.code_filth = "Dirty" /\ is_some(acc.code_cache) /\ unwrap(acc.code_cache) # EMPTY_BYTES
     THEN {<<a, unwrap(acc.code_cache)>>} ELSE {})
    \cup
    (IF acc.abi_filth = "Dirty" /\ is_some(acc.abi_cache) /\ unwrap(acc.abi_cache) # EMPTY_BYTES
     THEN {<<a, unwrap(acc.abi_cache)>>} ELSE {})

Account_clone_dirty(acc) == acc

\* the blob cache overwrite_with leaves: that of `other`, or the one of `ours`
\* when `other` has none and ours is the blob of the restored hash (a present
\* blob always hashes to the record's hash)
MergeBlob(ours_cache, ours_hash, other_cache, other_hash) ==
    IF is_some(other_cache) THEN other_cache
    ELSE IF ours_hash = other_hash THEN ours_cache
    ELSE None

\* mandatory fields are taken from `other`; the storage overlay is merged,
\* cells of `other` winning; blob caches are merged toward the present
Account_overwrite_with(ours, other) ==
    [nonce |-> other.nonce, storage_root |-> other.storage_root,
     storage_overlay |->
        [k \in Keys |-> IF other.storage_overlay[k] # NoCell
                        THEN other.storage_overlay[k] ELSE ours.storage_overlay[k]],
     code_hash |-> other.code_hash,
     code_cache |-> MergeBlob(ours.code_cache, ours.code_hash,
                              other.code_cache, other.code_hash),
     code_filth |-> other.code_filth,
     abi_hash |-> other.abi_hash,
     abi_cache |-> MergeBlob(ours.abi_cache, ours.abi_hash,
                             other.abi_cache, other.abi_hash),
     abi_filth |-> other.abi_filth]

----------------------------------------------------------------------------
(* AccountEntry *)

AccountEntry_is_dirty(entry) == entry.state = "Dirty"

AccountEntry_clone_dirty(entry) ==
    [account |-> IF is_some(entry.account)
                 THEN Some(Account_clone_dirty(unwrap(entry.account))) ELSE None,
     state |-> entry.state]

AccountEntry_clone_if_dirty(entry) ==
    IF AccountEntry_is_dirty(entry) THEN Some(AccountEntry_clone_dirty(entry)) ELSE None

AccountEntry_new_dirty(account) == [account |-> account, state |-> "Dirty"]

AccountEntry_new_clean(account) == [account |-> account, state |-> "CleanFresh"]

\* the tag is taken from `other`; the record is merged only when both entries
\* hold one, and dropped when `other` holds none
AccountEntry_overwrite_with(entry, other) ==
    [state |-> other.state,
     account |->
        IF is_some(other.account)
        THEN IF is_some(entry.account)
             THEN Some(Account_overwrite_with(unwrap(entry.account), unwrap(other.account)))
             ELSE entry.account
        ELSE None]

----------------------------------------------------------------------------
(* State<B>, as a record s of its fields *)

EmptyCache == [a \in Addresses |-> None]
EmptyFrame == [a \in Addresses |-> None]

\* trie.readonly(db, root).get_with(a, Account::from_rlp)
TrieGet(s, a) ==
    IF is_some(s.root[a]) THEN Some(Account_from_rlp(unwrap(s.root[a]))) ELSE None

\* from_existing without the contains check
from_existing_unchecked(backend, r, start_nonce) ==
    Some([root |-> r, db |-> backend, cache |-> EmptyCache,
          checkpoints |-> <<>>, account_start_nonce |-> start_nonce])

from_existing(backend, r, start_nonce) ==
    IF r \notin backend.roots
    THEN None
    ELSE Some([root |-> r, db |-> backend, cache |-> EmptyCache,
               checkpoints |-> <<>>, account_start_nonce |-> start_nonce])

\* checkpoint that puts the new frame under the frames already there
checkpoint_below(s) == [s EXCEPT !.checkpoints = <<EmptyFrame>> \o @]

checkpoint(s) == [s EXCEPT !.checkpoints = Append(@, EmptyFrame)]

Top(s) == s.checkpoints[Len(s.checkpoints)]
Butlast(q) == SubSeq(q, 1, Len(q) - 1)

\* discard_checkpoint in which the slots of the discarded frame replace those
\* of its parent
discard_checkpoint_child_wins(s) ==
    IF s.checkpoints = <<>> THEN s
    ELSE LET last_frame == Top(s)
             rest == Butlast(s.checkpoints)
         IN  IF rest = <<>> THEN [s EXCEPT !.checkpoints = rest]
             ELSE LET prev == rest[Len(rest)]
                      merged == [a \in Addresses |->
                                    IF is_some(last_frame[a]) THEN last_frame[a] ELSE prev[a]]
                  IN  [s EXCEPT !.checkpoints = [rest EXCEPT ![Len(rest)] = merged]]

discard_checkpoint(s) ==
    IF s.checkpoints = <<>> THEN s
    ELSE LET last_frame == Top(s)
             rest == Butlast(s.checkpoints)
         IN  IF rest = <<>> THEN [s EXCEPT !.checkpoints = rest]
             ELSE LET prev == rest[Len(rest)]
                      merged == IF prev = EmptyFrame THEN last_frame
                                ELSE [a \in Addresses |->
                                        IF is_some(prev[a]) THEN prev[a] ELSE last_frame[a]]
                  IN  [s EXCEPT !.checkpoints = [rest EXCEPT ![Len(rest)] = merged]]

\* what revert_to_checkpoint does to the cache slot of one address
RevertSlot(cached, slot) ==
    IF ~is_some(slot) THEN cached
    ELSE LET v == unwrap(slot)
         IN  IF is_some(v)
             THEN IF is_some(cached)
                  THEN Some(AccountEntry_overwrite_with(unwrap(cached), unwrap(v)))
                  ELSE v
             ELSE IF is_some(cached) /\ AccountEntry_is_dirty(unwrap(cached))
                  THEN None
                  ELSE cached

\* revert_to_checkpoint that, without a checkpoint, throws away every Dirty entry
revert_to_checkpoint_all(s) ==
    IF s.checkpoints = <<>>
    THEN [s EXCEPT !.cache = [a \in Addresses |->
            IF is_some(s.cache[a]) /\ AccountEntry_is_dirty(unwrap(s.cache[a]))
            THEN None ELSE s.cache[a]]]
    ELSE LET frame == Top(s)
         IN  [s EXCEPT !.checkpoints = Butlast(@),
                       !.cache = [a \in Addresses |-> RevertSlot(s.cache[a], frame[a])]]

\* revert_to_checkpoint that removes the entry of an absent marker whatever
\* its tag
revert_to_checkpoint_evict(s) ==
    IF s.checkpoints = <<>> THEN s
    ELSE LET frame == Top(s)
         IN  [s EXCEPT !.checkpoints = Butlast(@),
                       !.cache = [a \in Addresses |->
                                    IF frame[a] = Some(None) THEN None
                                    ELSE RevertSlot(s.cache[a], frame[a])]]

revert_to_checkpoint(s) ==
    IF s.checkpoints = <<>> THEN s
    ELSE LET frame == Top(s)
         IN  [s EXCEPT !.checkpoints = Butlast(@),
                       !.cache = [a \in Addresses |-> RevertSlot(s.cache[a], frame[a])]]

\* insert_cache that never records an undo slot
insert_cache_unnoted(s, address, account) ==
    [s EXCEPT !.cache[address] = Some(account)]

\* insert_cache that records the undo slot and leaves the entry out of the cache
insert_cache_lost(s, address, account) ==
    IF /\ AccountEntry_is_dirty(account)
       /\ s.checkpoints # <<>>
       /\ ~is_some(Top(s)[address])
    THEN [s EXCEPT !.checkpoints[Len(s.checkpoints)][address] = Some(s.cache[address])]
    ELSE [s EXCEPT !.cache[address] = Some(account)]

insert_cache(s, address, account) ==
    IF /\ AccountEntry_is_dirty(account)
       /\ s.checkpoints # <<>>
       /\ ~is_some(Top(s)[address])
    THEN [s EXCEPT !.checkpoints[Len(s.checkpoints)][address] = Some(s.cache[address]),
                   !.cache[address] = Some(account)]
    ELSE [s EXCEPT !.cache[address] = Some(account)]

\* note_cache that overwrites the slot at every call
note_cache_every(s, address) ==
    IF s.checkpoints # <<>>
    THEN [s EXCEPT !.checkpoints[Len(s.checkpoints)][address] =
            Some(IF is_some(s.cache[address])
                 THEN Some(AccountEntry_clone_dirty(unwrap(s.cache[address])))
                 ELSE None)]
    ELSE s

\* note_cache that records the absent marker for an entry without account
note_cache_absent(s, address) ==
    IF s.checkpoints # <<>> /\ ~is_some(Top(s)[address])
    THEN [s EXCEPT !.checkpoints[Len(s.checkpoints)][address] =
            Some(IF is_some(s.cache[address]) /\ is_some(unwrap(s.cache[address]).account)
                 THEN Some(AccountEntry_clone_dirty(unwrap(s.cache[address])))
                 ELSE None)]
    ELSE s

note_cache(s, address) ==
    IF s.checkpoints # <<>> /\ ~is_some(Top(s)[address])
    THEN [s EXCEPT !.checkpoints[Len(s.checkpoints)][address] =
            Some(IF is_some(s.cache[address])
                 THEN Some(AccountEntry_clone_dirty(unwrap(s.cache[address])))
                 ELSE None)]
    ELSE s

drop(s) == [root |-> s.root, db |-> s.db]

\* new_contract that keeps the record of an account that is already there
new_contract_keep(s, contract, nonce_offset) ==
    LET held == IF is_some(s.cache[contract])
                THEN unwrap(s.cache[contract]).account
                ELSE TrieGet(s, contract)
    IN  insert_cache(s, contract,
            AccountEntry_new_dirty(
                IF is_some(held) THEN held
                ELSE Some(Account_new_contract(s.account_start_nonce + nonce_offset))))

new_contract(s, contract, nonce_offset) ==
    insert_cache(s, contract,
        AccountEntry_new_dirty(Some(Account_new_contract(s.account_start_nonce + nonce_offset))))

\* kill_account that installs the absent entry as clean
kill_account_clean(s, account) ==
    insert_cache(s, account, AccountEntry_new_clean(None))

kill_account(s, account) ==
    insert_cache(s, account, AccountEntry_new_dirty(None))

update_account_cache(require, account, backend, a) ==
    LET c == IF require \in {"Code", "CodeSize"} /\ ~Account_is_cached(account)
             THEN Account_cache_code(account, backend, a) ELSE account
    IN  IF require \in {"Abi", "AbiSize"} /\ ~Account_is_abi_cached(c)
        THEN Account_cache_abi(c, backend, a) ELSE c

\* ensure_cached that goes to the trie when the cached entry holds no account
ensure_cached_through(s, a, require) ==
    IF is_some(s.cache[a]) /\ is_some(unwrap(s.cache[a]).account)
    THEN LET maybe_acc == unwrap(s.cache[a])
             account == update_account_cache(require, unwrap(maybe_acc.account), s.db, a)
         IN  [s |-> [s EXCEPT !.cache[a] = Some([maybe_acc EXCEPT !.account = Some(account)])],
              acc |-> Some(account)]
    ELSE LET loaded == TrieGet(s, a)
             maybe_acc == IF is_some(loaded)
                          THEN Some(update_account_cache(require, unwrap(loaded), s.db, a))
                          ELSE None
         IN  [s |-> insert_cache(s, a, AccountEntry_new_clean(maybe_acc)), acc |-> maybe_acc]

\* ensure_cached that installs what it loads as a Dirty entry
ensure_cached_dirty(s, a, require) ==
    IF is_some(s.cache[a])
    THEN LET maybe_acc == unwrap(s.cache[a])
         IN  IF is_some(maybe_acc.account)
             THEN LET account == update_account_cache(require, unwrap(maybe_acc.account), s.db, a)
                  IN  [s |-> [s EXCEPT !.cache[a] = Some([maybe_acc EXCEPT !.account = Some(account)])],
                       acc |-> Some(account)]
             ELSE [s |-> s, acc |-> None]
    ELSE LET loaded == TrieGet(s, a)
             maybe_acc == IF is_some(loaded)
                          THEN Some(update_account_cache(require, unwrap(loaded), s.db, a))
                          ELSE None
         IN  [s |-> insert_cache(s, a, AccountEntry_new_dirty(maybe_acc)), acc |-> maybe_acc]

\* ensure_cached without its closure: the state after the call and the
\* Option<&Account> the closure is applied to
ensure_cached(s, a, require) ==
    IF is_some(s.cache[a])
    THEN LET maybe_acc == unwrap(s.cache[a])
         IN  IF is_some(maybe_acc.account)
             THEN LET account == update_account_cache(require, unwrap(maybe_acc.account), s.db, a)
                  IN  [s |-> [s EXCEPT !.cache[a] = Some([maybe_acc EXCEPT !.account = Some(account)])],
                       acc |-> Some(account)]
             ELSE [s |-> s, acc |-> None]
    ELSE LET loaded == TrieGet(s, a)
             maybe_acc == IF is_some(loaded)
                          THEN Some(update_account_cache(require, unwrap(loaded), s.db, a))
                          ELSE None
         IN  [s |-> insert_cache(s, a, AccountEntry_new_clean(maybe_acc)), acc |-> maybe_acc]

----------------------------------------------------------------------------
(* Read operations: each yields the state after the call and its result *)

exists(s, a) ==
    LET e == ensure_cached(s, a, "None")
    IN  [s |-> e.s, r |-> is_some(e.acc)]

exists_and_not_null(s, a) ==
    LET e == ensure_cached(s, a, "None")
    IN  [s |-> e.s,
         r |-> is_some(e.acc) /\ ~Account_is_null(unwrap(e.acc), s.account_start_nonce)]

exists_and_has_code_or_nonce(s, a) ==
    LET e == ensure_cached(s, a, "CodeSize")
    IN  [s |-> e.s,
         r |-> is_some(e.acc) /\ (\/ unwrap(e.acc).code_hash # HASH_EMPTY
                                  \/ unwrap(e.acc).nonce # s.account_start_nonce)]

nonce(s, a) ==
    LET e == ensure_cached(s, a, "None")
    IN  [s |-> e.s,
         r |-> IF is_some(e.acc) THEN unwrap(e.acc).nonce ELSE s.account_start_nonce]

storage_root(s, a) ==
    LET e == ensure_cached(s, a, "None")
    IN  [s |-> e.s,
         r |-> IF is_some(e.acc) THEN Some(unwrap(e.acc).storage_root) ELSE None]

\* storage_at that reads the per-account trie whatever the overlay holds
storage_at_from_trie(s, address, key) ==
    IF is_some(s.cache[address])
    THEN LET maybe_acc == unwrap(s.cache[address])
         IN  IF is_some(maybe_acc.account)
             THEN [s |-> s, r |-> unwrap(maybe_acc.account).storage_root[key]]
             ELSE [s |-> s, r |-> 0]
    ELSE LET maybe_acc == TrieGet(s, address)
         IN  IF is_some(maybe_acc)
             THEN LET rd == Account_storage_at(unwrap(maybe_acc), key)
                  IN  [s |-> insert_cache(s, address, AccountEntry_new_clean(Some(rd.acc))),
                       r |-> rd.value]
             ELSE [s |-> insert_cache(s, address, AccountEntry_new_clean(None)), r |-> 0]

storage_at(s, address, key) ==
    IF is_some(s.cache[address])
    THEN LET maybe_acc == unwrap(s.cache[address])
         IN  IF is_some(maybe_acc.account)
             THEN LET rd == Account_storage_at(unwrap(maybe_acc.account), key)
                  IN  [s |-> [s EXCEPT !.cache[address] =
                                    Some([maybe_acc EXCEPT !.account = Some(rd.acc)])],
                       r |-> rd.value]
             ELSE [s |-> s, r |-> 0]
    ELSE LET maybe_acc == TrieGet(s, address)
         IN  IF is_some(maybe_acc)
             THEN LET rd == Account_storage_at(unwrap(maybe_acc), key)
                  IN  [s |-> insert_cache(s, address, AccountEntry_new_clean(Some(rd.acc))),
                       r |-> rd.value]
             ELSE [s |-> insert_cache(s, address, AccountEntry_new_clean(None)), r |-> 0]

code(s, a) ==
    LET e == ensure_cached(s, a, "Code")
    IN  [s |-> e.s, r |-> IF is_some(e.acc) THEN Account_code(unwrap(e.acc)) ELSE None]

code_hash(s, a) ==
    LET e == ensure_cached(s, a, "None")
    IN  [s |-> e.s, r |-> IF is_some(e.acc) THEN unwrap(e.acc).code_hash ELSE HASH_EMPTY]

code_size(s, a) ==
    LET e == ensure_cached(s, a, "CodeSize")
    IN  [s |-> e.s, r |-> IF is_some(e.acc) THEN Account_code_size(unwrap(e.acc)) ELSE None]

abi(s, a) ==
    LET e == ensure_cached(s, a, "Abi")
    IN  [s |-> e.s, r |-> IF is_some(e.acc) THEN Account_abi(unwrap(e.acc)) ELSE None]

abi_hash(s, a) ==
    LET e == ensure_cached(s, a, "None")
    IN  [s |-> e.s, r |-> IF is_some(e.acc) THEN unwrap(e.acc).abi_hash ELSE HASH_EMPTY]

abi_size(s, a) ==
    LET e == ensure_cached(s, a, "AbiSize")
    IN  [s |-> e.s, r |-> IF is_some(e.acc) THEN Account_abi_size(unwrap(e.acc)) ELSE None]

----------------------------------------------------------------------------
(* The require path and the mutations *)

\* require_or_from that leaves the tag of the entry as it finds it
require_or_from_untagged(s, a, require_code, require_abi, default) ==
    LET s1 == IF ~is_some(s.cache[a])
              THEN insert_cache(s, a, AccountEntry_new_clean(TrieGet(s, a)))
              ELSE s
        s2 == note_cache(s1, a)
        entry == unwrap(s2.cache[a])
        acc0 == IF is_some(entry.account) THEN unwrap(entry.account) ELSE default
        acc1 == IF require_code THEN update_account_cache("Code", acc0, s.db, a) ELSE acc0
        acc2 == IF require_abi THEN update_account_cache("Abi", acc1, s.db, a) ELSE acc1
    IN  [s2 EXCEPT !.cache[a] = Some([account |-> Some(acc2), state |-> entry.state])]

\* require_or_from with not_default = |_| {}: the state in which the entry of
\* `a` is Dirty and holds the record the returned handle points to
require_or_from(s, a, require_code, require_abi, default) ==
    LET s1 == IF ~is_some(s.cache[a])
              THEN insert_cache(s, a, AccountEntry_new_clean(TrieGet(s, a)))
              ELSE s
        s2 == note_cache(s1, a)
        entry == unwrap(s2.cache[a])
        acc0 == IF is_some(entry.account) THEN unwrap(entry.account) ELSE default
        acc1 == IF require_code THEN update_account_cache("Code", acc0, s.db, a) ELSE acc0
        acc2 == IF require_abi THEN update_account_cache("Abi", acc1, s.db, a) ELSE acc1
    IN  [s2 EXCEPT !.cache[a] = Some([account |-> Some(acc2), state |-> "Dirty"])]

require(s, a, require_code, require_abi) ==
    require_or_from(s, a, require_code, require_abi,
                    Account_new_basic(s.account_start_nonce))

\* the record behind the RefMut handle, and a write through it
Handle(s, a) == unwrap(unwrap(s.cache[a]).account)
WriteHandle(s, a, acc) ==
    [s EXCEPT !.cache[a] = Some([unwrap(s.cache[a]) EXCEPT !.account = Some(acc)])]

\* inc_nonce that counts from the start nonce whatever the record holds
inc_nonce_from_start(s, a) ==
    LET r == require(s, a, FALSE, FALSE)
    IN  WriteHandle(r, a, [Handle(r, a) EXCEPT !.nonce = s.account_start_nonce + 1])

inc_nonce(s, a) ==
    LET r == require(s, a, FALSE, FALSE)
    IN  WriteHandle(r, a, Account_inc_nonce(Handle(r, a)))

\* set_storage without the comparison with the stored value
set_storage_always(s, a, key, value) ==
    LET rd == storage_at(s, a, key)
        r == require(rd.s, a, FALSE, FALSE)
    IN  WriteHandle(r, a, Account_set_storage(Handle(r, a), key, value))

set_storage(s, a, key, value) ==
    LET rd == storage_at(s, a, key)
    IN  IF rd.r # value
        THEN LET r == require(rd.s, a, FALSE, FALSE)
             IN  WriteHandle(r, a, Account_set_storage(Handle(r, a), key, value))
        ELSE rd.s

init_code(s, a, blob) ==
    LET r == require_or_from(s, a, TRUE, FALSE, Account_new_contract(s.account_start_nonce))
    IN  WriteHandle(r, a, Account_init_code(Handle(r, a), blob))

reset_code(s, a, blob) ==
    LET r == require_or_from(s, a, TRUE, FALSE, Account_new_contract(s.account_start_nonce))
    IN  WriteHandle(r, a, Account_reset_code(Handle(r, a), blob))

init_abi(s, a, blob) ==
    LET r == require_or_from(s, a, FALSE, TRUE, Account_new_contract(s.account_start_nonce))
    IN  WriteHandle(r, a, Account_init_abi(Handle(r, a), blob))

reset_abi(s, a, blob) ==
    LET r == require_or_from(s, a, FALSE, TRUE, Account_new_contract(s.account_start_nonce))
    IN  WriteHandle(r, a, Account_reset_abi(Handle(r, a), blob))

----------------------------------------------------------------------------
(* The same operations over a backend whose reads may fail.  `fails` says
   whether db.get_with on the top trie returns an error in this call; opening
   the trie fails when the backend does not hold the root.  Each operator
   yields the state after the call and err: "none", "trie" (the call
   returned the trie error) or "panic". *)

TrieOpens(s) == s.root \in s.db.roots

ensure_cached_or_err(s, a, mode, fails) ==
    IF is_some(s.cache[a]) THEN [s |-> ensure_cached(s, a, mode).s, err |-> "none"]
    ELSE IF ~TrieOpens(s) THEN [s |-> s, err |-> "trie"]
    ELSE IF fails THEN [s |-> s, err |-> "trie"]
    ELSE [s |-> ensure_cached(s, a, mode).s, err |-> "none"]

storage_at_or_err(s, address, key, fails) ==
    IF is_some(s.cache[address])
    THEN [s |-> storage_at(s, address, key).s, r |-> storage_at(s, address, key).r,
          err |-> "none"]
    ELSE IF ~TrieOpens(s) THEN [s |-> s, r |-> 0, err |-> "panic"]
    ELSE IF fails THEN [s |-> s, r |-> 0, err |-> "trie"]
    ELSE [s |-> storage_at(s, address, key).s, r |-> storage_at(s, address, key).r,
          err |-> "none"]

\* require_or_from that records the undo slot before it loads the address
require_or_from_or_err_noted(s, a, require_code, require_abi, default, fails) ==
    IF is_some(s.cache[a])
    THEN [s |-> require_or_from(s, a, require_code, require_abi, default), err |-> "none"]
    ELSE IF ~TrieOpens(s) \/ fails THEN [s |-> note_cache(s, a), err |-> "trie"]
    ELSE [s |-> require_or_from(s, a, require_code, require_abi, default), err |-> "none"]

require_or_from_or_err(s, a, require_code, require_abi, default, fails) ==
    IF is_some(s.cache[a])
    THEN [s |-> require_or_from(s, a, require_code, require_abi, default), err |-> "none"]
    ELSE IF ~TrieOpens(s) \/ fails THEN [s |-> s, err |-> "trie"]
    ELSE [s |-> require_or_from(s, a, require_code, require_abi, default), err |-> "none"]

require_or_err(s, a, require_code, require_abi, fails) ==
    require_or_from_or_err(s, a, require_code, require_abi,
                           Account_new_basic(s.account_start_nonce), fails)

inc_nonce_or_err(s, a, fails) ==
    LET r == require_or_err(s, a, FALSE, FALSE, fails)
    IN  IF r.err # "none" THEN r
        ELSE [s |-> WriteHandle(r.s, a, Account_inc_nonce(Handle(r.s, a))), err |-> "none"]

set_storage_or_err(s, a, key, value, fails) ==
    LET rd == storage_at_or_err(s, a, key, fails)
    IN  IF rd.err # "none" THEN [s |-> rd.s, err |-> rd.err]
        ELSE IF rd.r # value
        THEN LET r == require_or_err(rd.s, a, FALSE, FALSE, fails)
             IN  IF r.err # "none" THEN r
                 ELSE [s |-> WriteHandle(r.s, a, Account_set_storage(Handle(r.s, a), key, value)),
                       err |-> "none"]
        ELSE [s |-> rd.s, err |-> "none"]

\* init_code, reset_code, init_abi, reset_abi
BlobOps == {"init_code", "reset_code", "init_abi", "reset_abi"}
set_blob_or_err(kind, s, a, blob, fails) ==
    LET r == require_or_from_or_err(s, a, kind \in {"init_code", "reset_code"},
                                    kind \in {"init_abi", "reset_abi"},
                                    Account_new_contract(s.account_start_nonce), fails)
    IN  IF r.err # "none" THEN r
        ELSE [s |-> WriteHandle(r.s, a,
                        CASE kind = "init_code" -> Account_init_code(Handle(r.s, a), blob)
                          [] kind = "reset_code" -> Account_reset_code(Handle(r.s, a), blob)
                          [] kind = "init_abi" -> Account_init_abi(Handle(r.s, a), blob)
                          [] kind = "reset_abi" -> Account_reset_abi(Handle(r.s, a), blob)),
              err |-> "none"]

----------------------------------------------------------------------------
(* Commit *)

DirtyAddresses(s) ==
    {a \in Addresses : is_some(s.cache[a]) /\ AccountEntry_is_dirty(unwrap(s.cache[a]))}

\* phase 1 for one record: storage, then code, then ABI
CommitAccount(acc) == Account_commit_abi(Account_commit_code(Account_commit_storage(acc)))

\* the backend writes of commit_into in the order the code makes them, the
\* first loop visiting the Dirty entries in the order `first`, the second in
\* the order `second` (a HashMap iterates in no fixed order)
RECURSIVE SubTreeWrites(_, _)
SubTreeWrites(s, order) ==
    IF order = <<>> THEN <<>>
    ELSE LET a == Head(order)
         IN  (IF is_some(unwrap(s.cache[a]).account)
              THEN << [kind |-> "commit_storage", address |-> a],
                      [kind |-> "commit_code", address |-> a],
                      [kind |-> "commit_abi", address |-> a] >>
              ELSE <<>>)
             \o SubTreeWrites(s, Tail(order))

RECURSIVE TopTrieWrites(_, _)
TopTrieWrites(s, order) ==
    IF order = <<>> THEN <<>>
    ELSE LET a == Head(order)
         IN  << [kind |-> IF is_some(unwrap(s.cache[a]).account) THEN "insert" ELSE "remove",
                 address |-> a] >>
             \o TopTrieWrites(s, Tail(order))

\* the writes with each record written to the top trie before its sub-tries
CommitWrites_trie_first(s, first, second) ==
    TopTrieWrites(s, second) \o SubTreeWrites(s, first)

CommitWrites(s, first, second) ==
    SubTreeWrites(s, first) \o TopTrieWrites(s, second)

\* the orders in which a loop may visit the Dirty entries
Orders(set) ==
    {q \in UNION {[1..n -> set] : n \in {Cardinality(set)}} :
        \A i, j \in 1..Len(q) : i # j => q[i] # q[j]}

\* one write applied to the engine
ApplyWrite(s, w) ==
    LET a == w.address
    IN  CASE w.kind = "commit_storage" ->
                WriteHandle(s, a, Account_commit_storage(Handle(s, a)))
          [] w.kind = "commit_code" ->
                [WriteHandle(s, a, Account_commit_code(Handle(s, a))) EXCEPT
                    !.db.blobs = @ \cup Account_pending_blobs(
                                    [Handle(s, a) EXCEPT !.abi_filth = "Clean"], a)]
          [] w.kind = "commit_abi" ->
                [WriteHandle(s, a, Account_commit_abi(Handle(s, a))) EXCEPT
                    !.db.blobs = @ \cup Account_pending_blobs(
                                    [Handle(s, a) EXCEPT !.code_filth = "Clean"], a)]
          [] w.kind = "insert" ->
                [s EXCEPT !.cache[a] = Some([unwrap(s.cache[a]) EXCEPT !.state = "Committed"]),
                          !.root[a] = Some(Account_rlp(Handle(s, a)))]
          [] w.kind = "remove" ->
                [s EXCEPT !.cache[a] = Some([unwrap(s.cache[a]) EXCEPT !.state = "Committed"]),
                          !.root[a] = None]

RECURSIVE ApplyWrites(_, _)
ApplyWrites(s, writes) ==
    IF writes = <<>> THEN s ELSE ApplyWrites(ApplyWrite(s, Head(writes)), Tail(writes))

\* commit_into, write by write: the top trie closes on its new root
commit_into_by_writes(s, first, second) ==
    LET done == ApplyWrites(s, CommitWrites(s, first, second))
    IN  [done EXCEPT !.db.roots = @ \cup {done.root}]

\* commit_into whose first loop, visiting the Dirty entries in the order
\* `first`, has already tagged the entries it went through when its write
\* number `p` fails
commit_into_failing_tagged(s, first, p) ==
    LET done == ApplyWrites(s, SubSeq(SubTreeWrites(s, first), 1, p - 1))
        gone == {SubTreeWrites(s, first)[i].address : i \in 1..(p - 1)}
    IN  [done EXCEPT !.cache = [a \in Addresses |->
            IF a \in gone THEN Some([unwrap(done.cache[a]) EXCEPT !.state = "Committed"])
            ELSE done.cache[a]]]

\* commit_into whose first loop, visiting the Dirty entries in the order
\* `first`, returns the error of its write number `p`, a commit_storage:
\* the writes before it are made, nothing after it is
commit_into_failing(s, first, p) ==
    ApplyWrites(s, SubSeq(SubTreeWrites(s, first), 1, p - 1))

\* the commit_storage writes of the first loop
StorageWrites(s, first) ==
    {p \in 1..Len(SubTreeWrites(s, first)) : SubTreeWrites(s, first)[p].kind = "commit_storage"}

\* commit_into without its first phase: records go to the top trie uncommitted
commit_into_no_subtrees(s) ==
    LET dirty == DirtyAddresses(s)
        present == {a \in dirty : is_some(unwrap(s.cache[a]).account)}
        trie == [a \in Addresses |->
                    IF a \in present THEN Some(Account_rlp(Handle(s, a)))
                    ELSE IF a \in dirty THEN None
                    ELSE s.root[a]]
    IN  [s EXCEPT
            !.cache = [a \in Addresses |->
                        IF a \in dirty
                        THEN Some([unwrap(s.cache[a]) EXCEPT !.state = "Committed"])
                        ELSE s.cache[a]],
            !.root = trie,
            !.db = [roots |-> s.db.roots \cup {trie}, blobs |-> s.db.blobs]]

\* commit_into that moves the records out of the cache entries it commits
commit_into_takes(s) ==
    LET dirty == DirtyAddresses(s)
        present == {a \in dirty : is_some(unwrap(s.cache[a]).account)}
        sub == [a \in present |-> CommitAccount(Handle(s, a))]
        blobs == UNION {Account_pending_blobs(Handle(s, a), a) : a \in present}
        trie == [a \in Addresses |->
                    IF a \in present THEN Some(Account_rlp(sub[a]))
                    ELSE IF a \in dirty THEN None
                    ELSE s.root[a]]
    IN  [s EXCEPT
            !.cache = [a \in Addresses |->
                        IF a \in dirty
                        THEN Some([account |-> None, state |-> "Committed"])
                        ELSE s.cache[a]],
            !.root = trie,
            !.db = [roots |-> s.db.roots \cup {trie}, blobs |-> s.db.blobs \cup blobs]]

\* commit_into that builds the top trie anew instead of opening it at the root
commit_into_new_trie(s) ==
    LET dirty == DirtyAddresses(s)
        present == {a \in dirty : is_some(unwrap(s.cache[a]).account)}
        sub == [a \in present |-> CommitAccount(Handle(s, a))]
        blobs == UNION {Account_pending_blobs(Handle(s, a), a) : a \in present}
        trie == [a \in Addresses |->
                    IF a \in present THEN Some(Account_rlp(sub[a])) ELSE None]
    IN  [s EXCEPT
            !.cache = [a \in Addresses |->
                        IF a \in present
                        THEN Some([account |-> Some(sub[a]), state |-> "Committed"])
                        ELSE IF a \in dirty
                        THEN Some([account |-> None, state |-> "Committed"])
                        ELSE s.cache[a]],
            !.root = trie,
            !.db = [roots |-> s.db.roots \cup {trie}, blobs |-> s.db.blobs \cup blobs]]

\* commit_into whose second phase writes the trie and leaves the tags alone
commit_into_untagged(s) ==
    LET dirty == DirtyAddresses(s)
        present == {a \in dirty : is_some(unwrap(s.cache[a]).account)}
        sub == [a \in present |-> CommitAccount(Handle(s, a))]
        blobs == UNION {Account_pending_blobs(Handle(s, a), a) : a \in present}
        trie == [a \in Addresses |->
                    IF a \in present THEN Some(Account_rlp(sub[a]))
                    ELSE IF a \in dirty THEN None
                    ELSE s.root[a]]
    IN  [s EXCEPT
            !.cache = [a \in Addresses |->
                        IF a \in present
                        THEN Some([account |-> Some(sub[a]), state |-> "Dirty"])
                        ELSE s.cache[a]],
            !.root = trie,
            !.db = [roots |-> s.db.roots \cup {trie}, blobs |-> s.db.blobs \cup blobs]]

commit_into(s) ==
    LET dirty == DirtyAddresses(s)
        present == {a \in dirty : is_some(unwrap(s.cache[a]).account)}
        sub == [a \in present |-> CommitAccount(Handle(s, a))]
        blobs == UNION {Account_pending_blobs(Handle(s, a), a) : a \in present}
        trie == [a \in Addresses |->
                    IF a \in present THEN Some(Account_rlp(sub[a]))
                    ELSE IF a \in dirty THEN None
                    ELSE s.root[a]]
    IN  [s EXCEPT
            !.cache = [a \in Addresses |->
                        IF a \in present
                        THEN Some([account |-> Some(sub[a]), state |-> "Committed"])
                        ELSE IF a \in dirty
                        THEN Some([account |-> None, state |-> "Committed"])
                        ELSE s.cache[a]],
            !.root = trie,
            !.db = [roots |-> s.db.roots \cup {trie}, blobs |-> s.db.blobs \cup blobs]]

\* commit without its assertion
commit_unchecked(s) == Some(commit_into(s))

\* None is the failed assertion
commit(s) ==
    IF s.checkpoints # <<>> THEN None ELSE Some(commit_into(s))

\* clear that also forgets the open checkpoints
clear_all(s) == [s EXCEPT !.cache = EmptyCache, !.checkpoints = <<>>]

clear(s) == [s EXCEPT !.cache = EmptyCache]

\* clone that copies every cache entry and the checkpoint stack
clone_all(s) == s

\* impl Clone: the Dirty entries, no checkpoint, the backend's boxed_clone
clone(s) ==
    [root |-> s.root,
     db |-> s.db,
     cache |-> [a \in Addresses |->
                 IF is_some(s.cache[a])
                 THEN AccountEntry_clone_if_dirty(unwrap(s.cache[a]))
                 ELSE None],
     checkpoints |-> <<>>,
     account_start_nonce |-> s.account_start_nonce]

----------------------------------------------------------------------------
(* apply: the executive runs the transaction, apply builds the receipt *)

\* EvmError: the variants apply matches on, with the data some of them carry
EvmErrorKinds ==
    {"OutOfGas", "BadJumpDestination", "BadInstruction", "StackUnderflow",
     "OutOfStack", "MutableCallInStaticContext", "Internal", "OutOfBounds", "Reverted"}
EvmErrorsWithData ==
    {"BadJumpDestination", "BadInstruction", "StackUnderflow", "OutOfStack", "Internal"}
EvmErrors ==
    {[kind |-> k, data |-> d] : k \in EvmErrorKinds, d \in {0}}
    \cup {[kind |-> k, data |-> d] : k \in EvmErrorsWithData, d \in {1}}

\* a signed transaction: its sender and its account nonce
Transactions == [sender : {"a1"}, account_nonce : NonceOffsets]

\* Receipt::new(state_root, quota_used, logs, error, account_nonce)
Receipt_new(state_root, quota_used, logs, error, nonce_of_tx) ==
    [state_root |-> state_root, quota_used |-> quota_used, logs |-> logs,
     error |-> error, account_nonce |-> nonce_of_tx]

\* Executive::new(state, ..).transact(t, options): what it may return and the
\* engine it leaves.  It raises the sender's nonce and may write a storage
\* cell; it fails (Err) before touching the engine, or returns Executed
\* with or without a VM exception.
Executive_transact(s, t) ==
    LET billed == inc_nonce(s, t.sender)
        ran == {billed} \cup {set_storage(billed, t.sender, k, 1) : k \in Keys}
    IN  {[ok |-> FALSE, s |-> s, exception |-> None,
          cumulative_gas_used |-> 0, logs |-> <<>>, trace |-> <<>>]}
        \cup
        {[ok |-> TRUE, s |-> s2, exception |-> x,
          cumulative_gas_used |-> 1, logs |-> <<>>, trace |-> <<>>] :
            s2 \in ran, x \in {None} \cup {Some(e) : e \in EvmErrors}}

\* the match of apply: EvmError to ReceiptError
ReceiptErrorOf(evm_error) ==
    CASE evm_error.kind = "OutOfGas" -> Some("ReceiptError::OutOfGas")
      [] evm_error.kind = "BadJumpDestination" -> Some("ReceiptError::BadJumpDestination")
      [] evm_error.kind = "BadInstruction" -> Some("ReceiptError::BadInstruction")
      [] evm_error.kind = "StackUnderflow" -> Some("ReceiptError::StackUnderflow")
      [] evm_error.kind = "OutOfStack" -> Some("ReceiptError::OutOfStack")
      [] evm_error.kind = "MutableCallInStaticContext" ->
            Some("ReceiptError::MutableCallInStaticContext")
      [] evm_error.kind = "Internal" -> Some("ReceiptError::Internal")
      [] evm_error.kind = "OutOfBounds" -> Some("ReceiptError::OutOfBounds")
      [] evm_error.kind = "Reverted" -> Some("ReceiptError::Reverted")

\* apply that treats a VM exception as a failure of the call
apply_strict(s, t, e) ==
    IF ~e.ok \/ is_some(e.exception)
    THEN [s |-> e.s, r |-> [ok |-> FALSE, outcome |-> None]]
    ELSE [s |-> e.s,
          r |-> [ok |-> TRUE,
                 outcome |-> Some([receipt |-> Receipt_new(None, e.cumulative_gas_used,
                                                           e.logs, None, t.account_nonce),
                                   trace |-> e.trace])]]

\* apply, given what transact returned: `?` passes an Err on; otherwise the
\* receipt carries the image of the exception
apply(s, t, e) ==
    IF ~e.ok
    THEN [s |-> e.s, r |-> [ok |-> FALSE, outcome |-> None]]
    ELSE LET receipt_error == IF is_some(e.exception)
                              THEN ReceiptErrorOf(unwrap(e.exception))
                              ELSE None
             receipt == Receipt_new(None, e.cumulative_gas_used, e.logs,
                                    receipt_error, t.account_nonce)
         IN  [s |-> e.s,
              r |-> [ok |-> TRUE, outcome |-> Some([receipt |-> receipt, trace |-> e.trace])]]

----------------------------------------------------------------------------
(* The read surface: what each read would return in state s *)

ReadSurface(s) ==
    [a \in Addresses |->
        [exists |-> exists(s, a).r,
         exists_and_not_null |-> exists_and_not_null(s, a).r,
         nonce |-> nonce(s, a).r,
         storage_root |-> storage_root(s, a).r,
         storage_at |-> [k \in Keys |-> storage_at(s, a, k).r],
         code |-> code(s, a).r,
         code_hash |-> code_hash(s, a).r,
         abi |-> abi(s, a).r,
         abi_hash |-> abi_hash(s, a).r]]

----------------------------------------------------------------------------
(* The engine in the current state, and the backends it can be opened on *)

Eng == [root |-> root, db |-> db, cache |-> cache, checkpoints |-> checkpoints,
        account_start_nonce |-> account_start_nonce]

\* a backend left by an earlier engine: new_contract(a1, 1), init_code,
\* init_abi, set_storage(a1, k1, 1), commit, drop
GenesisRecord(start_nonce) ==
    [nonce |-> start_nonce + 1,
     storage_root |-> [k \in Keys |-> 1],
     code_hash |-> Keccak(<<1, 2, 3>>),
     abi_hash |-> Keccak(<<1, 2, 3>>)]

GenesisTrie(start_nonce) ==
    [a \in Addresses |-> IF a = "a1" THEN Some(GenesisRecord(start_nonce)) ELSE None]

GenesisDb(start_nonce) ==
    [roots |-> {EmptyTrie, GenesisTrie(start_nonce)},
     blobs |-> {<<"a1", <<1, 2, 3>> >>}]

\* a trie no genesis backend holds: a1 after inc_nonce on an empty trie
OtherTrie(start_nonce) ==
    [a \in Addresses |->
        IF a = "a1"
        THEN Some(Account_rlp(Account_inc_nonce(Account_new_basic(start_nonce))))
        ELSE None]

\* the roots a caller may hand to from_existing
RootArgs == {EmptyTrie} \cup {OtherTrie(n) : n \in StartNonces}

\* drop() followed by from_existing on the pair it returned
Reopen(s) == unwrap(from_existing(drop(s).db, drop(s).root, s.account_start_nonce))

\* the addresses inc_nonce was given since the top checkpoint was opened,
\* while nothing else has run in it; a pop carries the run it ends
NoRun == [pure |-> FALSE, addrs |-> <<>>]
Run(name, arg) ==
    IF name = "checkpoint" THEN [pure |-> TRUE, addrs |-> <<>>]
    ELSE IF name = "inc_nonce"
    THEN IF /\ last.run.pure
            /\ last.op \in {"checkpoint", "inc_nonce"}
            /\ \A i \in 1..Len(last.run.addrs) : last.run.addrs[i] = unwrap(arg)
         THEN [pure |-> TRUE, addrs |-> Append(last.run.addrs, unwrap(arg))]
         ELSE NoRun
    ELSE IF /\ name \in {"discard_checkpoint", "revert_to_checkpoint"}
            /\ last.op \in {"checkpoint", "inc_nonce"}
    THEN last.run
    ELSE NoRun

Op(name, arg) ==
    [op |-> name, arg |-> arg, dirty |-> {}, at |-> EmptyTrie,
     depth |-> Len(checkpoints), snap |-> None, run |-> Run(name, arg),
     mark |-> None, frame |-> None, vm |-> None, result |-> None]

InitWith(addrs, n) ==
    /\ focus = addrs
    /\ limit = n
    /\ account_start_nonce \in StartNonces
    /\ db = GenesisDb(account_start_nonce)
    /\ root \in {EmptyTrie, GenesisTrie(account_start_nonce)}
    /\ cache = EmptyCache
    /\ checkpoints = <<>>
    /\ status = "ok"
    /\ last = [op |-> "from_existing", arg |-> None, dirty |-> {}, at |-> root,
               depth |-> 0, snap |-> None, run |-> NoRun,
               mark |-> None, frame |-> None, vm |-> None, result |-> None]
    /\ snaps = <<>>
    /\ plain = Eng
    /\ reverted = FALSE
    /\ twin = None
    /\ steps = 0

----------------------------------------------------------------------------
(* Actions: one per public operation of State *)

Install(s) ==
    /\ root' = s.root
    /\ db' = s.db
    /\ cache' = s.cache
    /\ checkpoints' = s.checkpoints
    /\ account_start_nonce' = s.account_start_nonce

Ready == status = "ok" /\ steps < limit /\ UNCHANGED <<limit, focus, twin>>

\* an operation that neither pushes nor pops a frame: `after` is the engine
\* after it, `shadow` the run without the outermost checkpoint after it
Plain(name, arg, after, shadow) ==
    /\ Ready
    /\ Install(after)
    /\ plain' = shadow
    /\ last' = Op(name, Some(arg))
    /\ steps' = steps + 1
    /\ UNCHANGED <<status, snaps, reverted>>

OpCheckpoint ==
    /\ Ready
    /\ Install(checkpoint(Eng))
    /\ plain' = IF checkpoints = <<>> THEN plain ELSE checkpoint(plain)
    /\ snaps' = Append(snaps, [reads |-> ReadSurface(Eng), cache |-> cache])
    /\ last' = Op("checkpoint", None)
    /\ steps' = steps + 1
    /\ UNCHANGED <<status, reverted>>

OpDiscardCheckpoint ==
    /\ Ready
    /\ Install(discard_checkpoint(Eng))
    /\ plain' = IF Len(checkpoints) <= 1 THEN plain ELSE discard_checkpoint(plain)
    /\ snaps' = IF snaps = <<>> THEN snaps ELSE Butlast(snaps)
    /\ last' = [Op("discard_checkpoint", None) EXCEPT
                    !.snap = IF snaps = <<>> THEN None ELSE Some(snaps[Len(snaps)].reads),
                    !.mark = IF snaps = <<>> THEN None ELSE Some(snaps[Len(snaps)].cache),
                    !.frame = IF checkpoints = <<>> THEN None ELSE Some(Top(Eng))]
    /\ steps' = steps + 1
    /\ UNCHANGED <<status, reverted>>

OpRevertToCheckpoint ==
    /\ Ready
    /\ Install(revert_to_checkpoint(Eng))
    /\ plain' = IF Len(checkpoints) <= 1 THEN revert_to_checkpoint(Eng)
                ELSE revert_to_checkpoint(plain)
    /\ snaps' = IF snaps = <<>> THEN snaps ELSE Butlast(snaps)
    /\ last' = [Op("revert_to_checkpoint", None) EXCEPT
                    !.snap = IF snaps = <<>> THEN None ELSE Some(snaps[Len(snaps)].reads),
                    !.mark = IF snaps = <<>> THEN None ELSE Some(snaps[Len(snaps)].cache),
                    !.frame = IF checkpoints = <<>> THEN None ELSE Some(Top(Eng))]
    /\ reverted' = (reverted \/ checkpoints # <<>>)
    /\ steps' = steps + 1
    /\ UNCHANGED status

OpNewContract ==
    \E a \in focus, off \in NonceOffsets :
        Plain("new_contract", a, new_contract(Eng, a, off), new_contract(plain, a, off))

OpKillAccount ==
    \E a \in focus :
        Plain("kill_account", a, kill_account(Eng, a), kill_account(plain, a))

OpIncNonce ==
    \E a \in focus :
        Plain("inc_nonce", a, inc_nonce(Eng, a), inc_nonce(plain, a))

OpSetStorage ==
    \E a \in focus, k \in Keys, v \in Values :
        Plain("set_storage", a, set_storage(Eng, a, k, v), set_storage(plain, a, k, v))

OpInitCode ==
    \E a \in focus, b \in Blobs :
        Plain("init_code", a, init_code(Eng, a, b), init_code(plain, a, b))

OpResetCode ==
    \E a \in focus, b \in Blobs :
        Plain("reset_code", a, reset_code(Eng, a, b), reset_code(plain, a, b))

OpInitAbi ==
    \E a \in focus, b \in Blobs :
        Plain("init_abi", a, init_abi(Eng, a, b), init_abi(plain, a, b))

OpResetAbi ==
    \E a \in focus, b \in Blobs :
        Plain("reset_abi", a, reset_abi(Eng, a, b), reset_abi(plain, a, b))

OpExists ==
    \E a \in focus : Plain("read", a, exists(Eng, a).s, exists(plain, a).s)

OpExistsAndNotNull ==
    \E a \in focus :
        Plain("read", a, exists_and_not_null(Eng, a).s, exists_and_not_null(plain, a).s)

OpExistsAndHasCodeOrNonce ==
    \E a \in focus :
        Plain("read", a, exists_and_has_code_or_nonce(Eng, a).s,
              exists_and_has_code_or_nonce(plain, a).s)

OpNonce ==
    \E a \in focus : Plain("read", a, nonce(Eng, a).s, nonce(plain, a).s)

OpStorageRoot ==
    \E a \in focus : Plain("read", a, storage_root(Eng, a).s, storage_root(plain, a).s)

OpStorageAt ==
    \E a \in focus, k \in Keys :
        Plain("read", a, storage_at(Eng, a, k).s, storage_at(plain, a, k).s)

OpCode ==
    \E a \in focus : Plain("read", a, code(Eng, a).s, code(plain, a).s)

OpCodeHash ==
    \E a \in focus : Plain("read", a, code_hash(Eng, a).s, code_hash(plain, a).s)

OpCodeSize ==
    \E a \in focus : Plain("read", a, code_size(Eng, a).s, code_size(plain, a).s)

OpAbi ==
    \E a \in focus : Plain("read", a, abi(Eng, a).s, abi(plain, a).s)

OpAbiHash ==
    \E a \in focus : Plain("read", a, abi_hash(Eng, a).s, abi_hash(plain, a).s)

OpAbiSize ==
    \E a \in focus : Plain("read", a, abi_size(Eng, a).s, abi_size(plain, a).s)

\* commit: a failed assertion ends the engine, nothing is written
\* a commit whose new root also reaches the engine's clone
OpCommit_through ==
    /\ status = "ok" /\ steps < limit /\ checkpoints = <<>>
    /\ Install(commit_into(Eng))
    /\ plain' = commit_into(Eng)
    /\ twin' = IF is_some(twin)
               THEN Some([unwrap(twin) EXCEPT !.root = commit_into(Eng).root])
               ELSE twin
    /\ last' = [Op("commit", None) EXCEPT !.dirty = DirtyAddresses(Eng)]
    /\ steps' = steps + 1
    /\ UNCHANGED <<status, snaps, reverted, limit, focus>>

OpCommit ==
    /\ Ready
    /\ LET r == commit(Eng)
       IN  IF is_some(r)
           THEN /\ Install(unwrap(r))
                /\ plain' = unwrap(r)
                /\ status' = "ok"
           ELSE /\ UNCHANGED <<root, db, cache, checkpoints, account_start_nonce, plain>>
                /\ status' = "panicked"
    /\ last' = [Op("commit", None) EXCEPT !.dirty = DirtyAddresses(Eng)]
    /\ steps' = steps + 1
    /\ UNCHANGED <<snaps, reverted>>

OpClear ==
    /\ Ready
    /\ Install(clear(Eng))
    /\ plain' = clear(plain)
    /\ reverted' = FALSE
    /\ last' = Op("clear", None)
    /\ steps' = steps + 1
    /\ UNCHANGED <<status, snaps>>

\* drop: the engine is gone, the caller holds (root, db)
OpDrop ==
    /\ Ready
    /\ root' = drop(Eng).root
    /\ db' = drop(Eng).db
    /\ cache' = EmptyCache
    /\ checkpoints' = <<>>
    /\ status' = "dropped"
    /\ snaps' = <<>>
    /\ reverted' = FALSE
    /\ last' = Op("drop", None)
    /\ steps' = steps + 1
    /\ plain' = [Eng EXCEPT !.cache = EmptyCache, !.checkpoints = <<>>]
    /\ UNCHANGED account_start_nonce

\* from_existing on the backend a drop returned
OpFromExisting ==
    /\ status = "dropped"
    /\ steps < limit
    /\ UNCHANGED <<limit, focus, twin>>
    /\ \E r \in RootArgs \cup {root} :
        LET made == from_existing(db, r, account_start_nonce)
        IN  /\ IF is_some(made)
               THEN /\ Install(unwrap(made))
                    /\ plain' = unwrap(made)
                    /\ status' = "ok"
               ELSE /\ UNCHANGED <<root, db, cache, checkpoints, account_start_nonce, plain>>
                    /\ status' = "bad_root"
            /\ last' = [Op("from_existing", None) EXCEPT !.at = r]
    /\ steps' = steps + 1
    /\ UNCHANGED <<snaps, reverted>>

Next ==
    \/ OpCheckpoint \/ OpDiscardCheckpoint \/ OpRevertToCheckpoint
    \/ OpNewContract \/ OpKillAccount
    \/ OpIncNonce \/ OpSetStorage
    \/ OpInitCode \/ OpResetCode \/ OpInitAbi \/ OpResetAbi
    \/ OpExists \/ OpExistsAndNotNull \/ OpExistsAndHasCodeOrNonce
    \/ OpNonce \/ OpStorageRoot \/ OpStorageAt
    \/ OpCode \/ OpCodeHash \/ OpCodeSize
    \/ OpAbi \/ OpAbiHash \/ OpAbiSize
    \/ OpCommit \/ OpClear \/ OpDrop \/ OpFromExisting

Init == InitWith(Addresses, MaxSteps)
Spec == Init /\ [][Next]_vars

\* longer runs, every operation on one address
InitDeep == InitWith({"a1"}, MaxDeepSteps)
SpecDeep == InitDeep /\ [][Next]_vars

\* the engine as the module's own tests drive it: they also call the
\* private require directly
OpRequire ==
    \E a \in focus :
        Plain("require", a, require(Eng, a, FALSE, FALSE), require(plain, a, FALSE, FALSE))

NextInternal == Next \/ OpRequire
SpecInternal == InitDeep /\ [][NextInternal]_vars

\* state.clone(): the caller now holds two engines
OpClone ==
    /\ status = "ok" /\ steps < limit /\ twin = None
    /\ twin' = Some(clone(Eng))
    /\ last' = Op("clone", None)
    /\ steps' = steps + 1
    /\ UNCHANGED <<root, db, cache, checkpoints, account_start_nonce, status,
                   snaps, plain, reverted, limit, focus>>

\* the caller turns to its other engine: the next operations run on it
OpSwap ==
    /\ status = "ok" /\ is_some(twin)
    /\ Install(unwrap(twin))
    /\ twin' = Some(Eng)
    /\ plain' = unwrap(twin)
    /\ snaps' = <<>>
    /\ reverted' = TRUE
    /\ last' = Op("swap", None)
    /\ UNCHANGED <<status, steps, limit, focus>>

\* two engines: the mutations, the checkpoint operations and commit, on
\* either engine in any order
NextClone ==
    \/ OpClone \/ OpSwap
    \/ OpCheckpoint \/ OpDiscardCheckpoint \/ OpRevertToCheckpoint
    \/ OpKillAccount \/ OpIncNonce \/ OpSetStorage
    \/ OpCommit

InitClone == InitWith(Addresses, MaxCloneSteps)
SpecClone == InitClone /\ [][NextClone]_vars

\* apply(env_info, t, ..): `vm` keeps what transact returned, `result` what
\* apply returned
OpApply ==
    \E t \in Transactions :
        \E e \in Executive_transact(Eng, t) :
            LET done == apply(Eng, t, e)
            IN  /\ Ready
                /\ Install(done.s)
                /\ plain' = done.s
                /\ last' = [Op("apply", Some(t.sender)) EXCEPT
                                !.vm = Some([ok |-> e.ok, exception |-> e.exception,
                                             account_nonce |-> t.account_nonce]),
                                !.result = Some(done.r)]
                /\ steps' = steps + 1
                /\ UNCHANGED <<status, snaps, reverted>>

\* transactions applied between the caller's checkpoints and commits
NextApply ==
    \/ OpApply
    \/ OpCheckpoint \/ OpDiscardCheckpoint \/ OpRevertToCheckpoint
    \/ OpCommit

SpecApply == InitDeep /\ [][NextApply]_vars

\* nested checkpoints around the mutations and two reads, on one address
NextNested ==
    \/ OpCheckpoint \/ OpDiscardCheckpoint \/ OpRevertToCheckpoint
    \/ OpNewContract \/ OpKillAccount \/ OpIncNonce \/ OpSetStorage
    \/ OpNonce \/ OpStorageAt

InitNested == InitWith({"a1"}, MaxNestedSteps)
SpecNested == InitNested /\ [][NextNested]_vars

(* The RefCell borrows of each operation, in the order the code takes and
   drops them.  A borrow flag is 0 when the cell is free, n > 0 under n
   shared borrows and -1 under a mutable one; borrow_mut panics unless the
   flag is 0, borrow panics when it is -1.  get_mut() takes no flag. *)

Cells2 == {"cache", "checkpoints"}
Borrow(cell) == [cell |-> cell, ev |-> "borrow"]
BorrowMut(cell) == [cell |-> cell, ev |-> "borrow_mut"]
DropRef(cell) == [cell |-> cell, ev |-> "drop_ref"]
DropRefMut(cell) == [cell |-> cell, ev |-> "drop_ref_mut"]

NoBorrows == [flags |-> [c \in Cells2 |-> 0], panicked |-> FALSE, both |-> FALSE]

BorrowStep(b, e) ==
    IF b.panicked THEN b
    ELSE LET f == b.flags[e.cell]
             g == CASE e.ev = "borrow" -> IF f >= 0 THEN f + 1 ELSE f
                    [] e.ev = "borrow_mut" -> IF f = 0 THEN 0 - 1 ELSE f
                    [] e.ev = "drop_ref" -> f - 1
                    [] e.ev = "drop_ref_mut" -> 0
             flags == [b.flags EXCEPT ![e.cell] = g]
         IN  [flags |-> flags,
              panicked |-> \/ (e.ev = "borrow" /\ f < 0)
                           \/ (e.ev = "borrow_mut" /\ f # 0),
              both |-> b.both \/ \A c \in Cells2 : flags[c] # 0]

RECURSIVE BorrowRun(_, _)
BorrowRun(b, events) ==
    IF events = <<>> THEN b ELSE BorrowRun(BorrowStep(b, Head(events)), Tail(events))

insert_cache_borrows(s, address, account) ==
    IF AccountEntry_is_dirty(account)
    THEN IF s.checkpoints # <<>> /\ ~is_some(Top(s)[address])
         THEN << BorrowMut("checkpoints"), BorrowMut("cache"), DropRefMut("cache"),
                 DropRefMut("checkpoints") >>
         ELSE << BorrowMut("checkpoints"), DropRefMut("checkpoints"),
                 BorrowMut("cache"), DropRefMut("cache") >>
    ELSE << BorrowMut("cache"), DropRefMut("cache") >>

note_cache_borrows(s, address) ==
    IF s.checkpoints # <<>> /\ ~is_some(Top(s)[address])
    THEN << BorrowMut("checkpoints"), Borrow("cache"), DropRef("cache"),
            DropRefMut("checkpoints") >>
    ELSE << BorrowMut("checkpoints"), DropRefMut("checkpoints") >>

ensure_cached_borrows(s, a) ==
    << BorrowMut("cache"), DropRefMut("cache") >>
    \o (IF is_some(s.cache[a]) THEN <<>>
        ELSE insert_cache_borrows(s, a, AccountEntry_new_clean(TrieGet(s, a))))

\* storage_at that fills the cache inside the block that holds local_cache
storage_at_borrows_held(s, address) ==
    IF is_some(s.cache[address])
    THEN << BorrowMut("cache"), DropRefMut("cache") >>
    ELSE << BorrowMut("cache") >>
         \o insert_cache_borrows(s, address, AccountEntry_new_clean(TrieGet(s, address)))
         \o << DropRefMut("cache") >>

storage_at_borrows(s, address) ==
    << BorrowMut("cache"), DropRefMut("cache") >>
    \o (IF is_some(s.cache[address]) THEN <<>>
        ELSE insert_cache_borrows(s, address, AccountEntry_new_clean(TrieGet(s, address))))

\* require_or_from returns with the cache mutably borrowed by its handle
require_or_from_borrows(s, a) ==
    << Borrow("cache"), DropRef("cache") >>
    \o (IF is_some(s.cache[a]) THEN <<>>
        ELSE insert_cache_borrows(s, a, AccountEntry_new_clean(TrieGet(s, a))))
    \o note_cache_borrows(IF is_some(s.cache[a]) THEN s
                          ELSE insert_cache(s, a, AccountEntry_new_clean(TrieGet(s, a))), a)
    \o << BorrowMut("cache") >>

\* the borrows of one public call; a mutation drops the handle it got
PublicOps ==
    {"checkpoint", "discard_checkpoint", "revert_to_checkpoint", "new_contract",
     "kill_account", "read", "storage_at", "inc_nonce", "set_storage",
     "init_code", "reset_code", "init_abi", "reset_abi", "commit", "clear", "clone"}

Borrows(name, s, a, key, value) ==
    CASE name \in {"checkpoint", "discard_checkpoint", "revert_to_checkpoint"} -> <<>>
      [] name = "new_contract" ->
            insert_cache_borrows(s, a, AccountEntry_new_dirty(
                                        Some(Account_new_contract(s.account_start_nonce))))
      [] name = "kill_account" -> insert_cache_borrows(s, a, AccountEntry_new_dirty(None))
      [] name = "read" -> ensure_cached_borrows(s, a)
      [] name = "storage_at" -> storage_at_borrows(s, a)
      [] name \in {"inc_nonce", "init_code", "reset_code", "init_abi", "reset_abi"} ->
            require_or_from_borrows(s, a) \o << DropRefMut("cache") >>
      [] name = "set_storage" ->
            storage_at_borrows(s, a)
            \o (IF storage_at(s, a, key).r # value
                THEN require_or_from_borrows(storage_at(s, a, key).s, a)
                     \o << DropRefMut("cache") >>
                ELSE <<>>)
      [] name = "commit" ->
            << Borrow("checkpoints"), DropRef("checkpoints") >>
            \o (IF s.checkpoints = <<>>
                THEN << BorrowMut("cache"), DropRefMut("cache") >> ELSE <<>>)
      [] name = "clear" -> << BorrowMut("cache"), DropRefMut("cache") >>
      [] name = "clone" -> << Borrow("cache"), DropRef("cache") >>

----------------------------------------------------------------------------
\* the engine over a backend whose top-trie reads may fail
RequireModes == {"None", "Code", "CodeSize", "Abi", "AbiSize"}

Faulty(name, a, fails, out, shadow) ==
    /\ Ready
    /\ Install(out.s)
    /\ plain' = IF out.err = "none" THEN shadow ELSE plain
    /\ last' = [Op(name, Some(a)) EXCEPT !.result = Some([fault |-> fails, err |-> out.err])]
    /\ steps' = steps + 1
    /\ status' = IF out.err = "panic" THEN "panicked" ELSE status
    /\ UNCHANGED <<snaps, reverted>>

OpReadOrErr ==
    \E a \in focus, mode \in RequireModes, fails \in BOOLEAN :
        Faulty("read", a, fails, ensure_cached_or_err(Eng, a, mode, fails),
               ensure_cached(plain, a, mode).s)

OpStorageAtOrErr ==
    \E a \in focus, k \in Keys, fails \in BOOLEAN :
        Faulty("storage_at", a, fails, storage_at_or_err(Eng, a, k, fails),
               storage_at(plain, a, k).s)

OpIncNonceOrErr ==
    \E a \in focus, fails \in BOOLEAN :
        Faulty("inc_nonce", a, fails, inc_nonce_or_err(Eng, a, fails), inc_nonce(plain, a))

OpSetStorageOrErr ==
    \E a \in focus, k \in Keys, v \in Values, fails \in BOOLEAN :
        Faulty("set_storage", a, fails, set_storage_or_err(Eng, a, k, v, fails),
               set_storage(plain, a, k, v))

OpSetBlobOrErr ==
    \E kind \in BlobOps, a \in focus, b \in Blobs, fails \in BOOLEAN :
        Faulty(kind, a, fails, set_blob_or_err(kind, Eng, a, b, fails),
               set_blob_or_err(kind, plain, a, b, FALSE).s)

\* commit over a backend on which a per-account storage commit fails
OpCommitOrErr ==
    /\ Ready
    /\ checkpoints = <<>>
    /\ \E first \in Orders(DirtyAddresses(Eng)) :
        \E p \in StorageWrites(Eng, first) :
            /\ Install(commit_into_failing(Eng, first, p))
            /\ plain' = commit_into_failing(Eng, first, p)
    /\ last' = [Op("commit", None) EXCEPT
                    !.dirty = DirtyAddresses(Eng),
                    !.result = Some([fault |-> TRUE, err |-> "trie"])]
    /\ steps' = steps + 1
    /\ UNCHANGED <<status, snaps, reverted>>

NextFaulty ==
    \/ OpCheckpoint \/ OpDiscardCheckpoint \/ OpRevertToCheckpoint
    \/ OpNewContract \/ OpKillAccount
    \/ OpReadOrErr \/ OpStorageAtOrErr
    \/ OpIncNonceOrErr \/ OpSetStorageOrErr \/ OpSetBlobOrErr
    \/ OpCommit \/ OpCommitOrErr \/ OpClear

InitFaulty == InitWith(Addresses, MaxFaultySteps)
SpecFaulty == InitFaulty /\ [][NextFaulty]_vars

----------------------------------------------------------------------------
(* Claims *)

\* what C4 and C5 compare: nonce, code, ABI and storage cells of every address
CommittedReads(s) ==
    [a \in Addresses |->
        [nonce |-> nonce(s, a).r,
         storage_at |-> [k \in Keys |-> storage_at(s, a, k).r],
         code |-> code(s, a).r,
         abi |-> abi(s, a).r]]

ExistsReads(s) == [a \in Addresses |-> exists(s, a).r]

\* C1: after checkpoint(); S; revert_to_checkpoint() every read on every
\* address returns what it returned immediately before the checkpoint().
C1_RevertRestoresReads ==
    (status = "ok" /\ last.op = "revert_to_checkpoint" /\ is_some(last.snap))
        => ReadSurface(Eng) = unwrap(last.snap)

C3_NestedRevertRestoresReads ==
    [][ ( /\ status' = "ok"
          /\ last'.op = "revert_to_checkpoint"
          /\ is_some(last'.snap)
          /\ \/ last'.depth >= 2
             \/ last'.depth = 1 /\ last.op = "revert_to_checkpoint" /\ last.depth = 2 )
        => ReadSurface(Eng') = unwrap(last'.snap) ]_vars

\* C4: in a run without a revert, the nonce, code, ABI and storage cells
\* read just before a successful commit() are those read after clear(), and
\* after drop() and from_existing(db, root).
C4_CommitIsDurable ==
    [][ (last'.op = "commit" /\ status' = "ok" /\ ~reverted)
        => /\ CommittedReads(clear(Eng')) = CommittedReads(Eng)
           /\ CommittedReads(Reopen(Eng')) = CommittedReads(Eng) ]_vars

\* C4 witness: a commit has written a record with code, ABI and a storage
\* cell that the trie did not hold before.
C4_Witness ==
    /\ status = "ok" /\ last.op = "commit" /\ ~reverted
    /\ \E a \in last.dirty :
        /\ is_some(root[a])
        /\ unwrap(root[a]) # GenesisRecord(account_start_nonce)
        /\ \/ unwrap(root[a]).code_hash # HASH_EMPTY
           \/ unwrap(root[a]).abi_hash # HASH_EMPTY
           \/ unwrap(root[a]).storage_root # EmptyStorage

\* C5: a successful commit() changes no result of nonce, exists, code, abi
\* and storage_at, on any address.
C5_CommitKeepsReads ==
    [][ (last'.op = "commit" /\ status' = "ok")
        => /\ CommittedReads(Eng') = CommittedReads(Eng)
           /\ ExistsReads(Eng') = ExistsReads(Eng) ]_vars

\* C5 witness: a commit has run over Dirty entries and changed the root.
C5_Witness ==
    /\ status = "ok" /\ last.op = "commit"
    /\ last.dirty # {}
    /\ Cardinality(db.roots) > 2

\* C6: with no Dirty entry in the cache every read returns what it returns
\* after clear().
C6_WarmEqualsCold ==
    (status = "ok" /\ DirtyAddresses(Eng) = {})
        => ReadSurface(Eng) = ReadSurface(clear(Eng))

\* C7: after kill_account(a), exists(a) and exists_and_not_null(a) are false
\* and nonce(a) is the start nonce; the next commit() removes a from the top
\* trie and a reopened engine reports exists(a) false.
C7_KillRemoves ==
    [][ /\ (status' = "ok" /\ last'.op = "kill_account") =>
            LET a == unwrap(last'.arg)
            IN  /\ ~exists(Eng', a).r
                /\ ~exists_and_not_null(Eng', a).r
                /\ nonce(Eng', a).r = account_start_nonce'
                /\ checkpoints' = <<>> =>
                    LET after == unwrap(commit(Eng'))
                    IN  after.root[a] = None /\ ~exists(Reopen(after), a).r
        /\ (status' = "ok" /\ last'.op = "commit") =>
            \A a \in Addresses :
                cache[a] = Some(AccountEntry_new_dirty(None))
                    => (root'[a] = None /\ ~exists(Reopen(Eng'), a).r) ]_vars

\* C7 witness: a commit has removed a killed address that the trie held.
C7_Witness ==
    /\ status = "ok" /\ last.op = "commit"
    /\ \E a \in last.dirty :
        /\ cache[a] = Some([account |-> None, state |-> "Committed"])
        /\ root[a] = None
        /\ \E r \in db.roots : is_some(r[a])

\* C8: commit() with a non-empty checkpoint stack fails its assertion and
\* writes nothing: root, cache and backend are unchanged.
C8_CommitInCheckpointPanics ==
    [][ (status = "ok" /\ checkpoints # <<>> /\ last'.op = "commit")
        => (status' = "panicked" /\ root' = root /\ cache' = cache /\ db' = db) ]_vars

\* C8 witness: the assertion failed with Dirty entries waiting in the cache.
C8_Witness ==
    status = "panicked" /\ checkpoints # <<>> /\ DirtyAddresses(Eng) # {}

\* C9 as claimed: revert_to_checkpoint() or discard_checkpoint() on an empty
\* checkpoint stack is a fatal failure.
C9_EmptyStackPopPanics ==
    [][ ( /\ status = "ok" /\ checkpoints = <<>>
          /\ last'.op \in {"revert_to_checkpoint", "discard_checkpoint"} )
        => status' = "panicked" ]_vars

\* C9 amended: revert_to_checkpoint() or discard_checkpoint() on an empty
\* checkpoint stack returns normally and changes nothing.
C9_EmptyStackPopIsNoOp ==
    [][ ( /\ status = "ok" /\ checkpoints = <<>>
          /\ last'.op \in {"revert_to_checkpoint", "discard_checkpoint"} )
        => ( /\ status' = "ok"
             /\ root' = root /\ cache' = cache /\ db' = db
             /\ checkpoints' = <<>> ) ]_vars

\* C9 witness: a revert ran on an empty stack over a cache with a Dirty entry.
C9_Witness ==
    /\ status = "ok"
    /\ last.op = "revert_to_checkpoint" /\ last.depth = 0
    /\ DirtyAddresses(Eng) # {}

\* C10: from_existing(db, root) fails with a bad root and makes no engine
\* when db does not contain root; otherwise the engine has that root, an
\* empty cache and an empty checkpoint stack.
C10_FromExisting ==
    [][ last'.op = "from_existing" =>
            IF last'.at \in db.roots
            THEN /\ status' = "ok"
                 /\ root' = last'.at
                 /\ cache' = EmptyCache
                 /\ checkpoints' = <<>>
            ELSE status' = "bad_root" ]_vars

\* C10 witness: from_existing was given a root the backend does not hold.
C10_Witness ==
    status = "bad_root" /\ last.op = "from_existing" /\ last.at \notin db.roots

\* the tag of every cached entry of s, None where nothing is cached
Tags(s) ==
    [a \in Addresses |->
        IF is_some(s.cache[a]) THEN Some(unwrap(s.cache[a]).state) ELSE None]

\* C11: set_storage(a, k, v) when storage_at(a, k) is already v changes no
\* tag of a cached entry, makes no entry Dirty, creates no account and
\* records no undo slot; and a second set_storage(a, k, v) leaves the
\* cache, the checkpoint frames and the root (so every read) as the first did.
C11_SetStorageIdempotent ==
    [][ (status' = "ok" /\ last'.op = "set_storage") =>
            LET a == unwrap(last'.arg)
            IN  \A k \in Keys, v \in Values :
                    Eng' = set_storage(Eng, a, k, v) =>
                        /\ set_storage(Eng', a, k, v) = Eng'
                        /\ storage_at(Eng, a, k).r = v =>
                            /\ checkpoints' = checkpoints
                            /\ DirtyAddresses(Eng') = DirtyAddresses(Eng)
                            /\ \A b \in Addresses :
                                    is_some(cache[b]) => Tags(Eng')[b] = Tags(Eng)[b]
                            /\ exists(Eng', a).r = exists(Eng, a).r ]_vars

\* C11 witness: inside a checkpoint, set_storage stored the value a clean
\* account already held, and the entry is still clean.
C11_Witness ==
    /\ status = "ok" /\ last.op = "set_storage" /\ checkpoints # <<>>
    /\ LET e == cache[unwrap(last.arg)]
       IN  /\ is_some(e) /\ unwrap(e).state = "CleanFresh"
           /\ is_some(unwrap(e).account)
           /\ \E k \in Keys :
                Account_cached_storage_at(unwrap(unwrap(e).account), k) \notin {None, Some(0)}

\* C12: a successful commit() over a cache with no Dirty entry leaves the
\* root as it was; so does a commit() that directly follows a commit().
C12_CommitWithoutDirtyKeepsRoot ==
    [][ (status = "ok" /\ status' = "ok" /\ last'.op = "commit") =>
            /\ DirtyAddresses(Eng) = {} => root' = root
            /\ last.op = "commit" => root' = root ]_vars

\* C12 witness: a commit found nothing Dirty in a cache that holds a
\* Committed entry, on a root that holds an account.
C12_Witness ==
    /\ status = "ok" /\ last.op = "commit" /\ last.dirty = {}
    /\ \E a \in Addresses :
        /\ is_some(cache[a]) /\ unwrap(cache[a]).state = "Committed"
        /\ is_some(root[a])

\* a cache slot without the caches inside its record: the tag, and the
\* nonce, storage root, hashes and pending marks of the account
Core(slot) ==
    IF ~is_some(slot) THEN None
    ELSE LET e == unwrap(slot)
         IN  Some([state |-> e.state,
                   account |-> IF is_some(e.account)
                               THEN LET acc == unwrap(e.account)
                                    IN  Some([nonce |-> acc.nonce,
                                              storage_root |-> acc.storage_root,
                                              code_hash |-> acc.code_hash,
                                              code_filth |-> acc.code_filth,
                                              abi_hash |-> acc.abi_hash,
                                              abi_filth |-> acc.abi_filth])
                               ELSE None])

\* the storage cells a cache slot holds in its overlay
Cells(slot) ==
    IF is_some(slot) /\ is_some(unwrap(slot).account)
    THEN unwrap(unwrap(slot).account).storage_overlay
    ELSE EmptyOverlay

\* what every read leaves alone: root, backend, frames, tags of cached
\* entries, the set of Dirty entries; an uncached address stays uncached or,
\* if it is the one read, gets a CleanFresh entry
ReadFrame ==
    (status' = "ok" /\ last'.op = "read") =>
        LET a == unwrap(last'.arg)
        IN  /\ root' = root /\ db' = db
            /\ checkpoints' = checkpoints
            /\ DirtyAddresses(Eng') = DirtyAddresses(Eng)
            /\ \A b \in Addresses :
                    IF is_some(cache[b])
                    THEN Tags(Eng')[b] = Tags(Eng)[b]
                    ELSE \/ cache'[b] = None
                         \/ b = a /\ unwrap(cache'[b]).state = "CleanFresh"

\* C13 as claimed: a read changes no root, tag or frame, makes nothing Dirty,
\* and changes the cache only by installing a CleanFresh entry for an
\* address not yet cached.
C13_ReadOnlyInstalls ==
    [][ /\ ReadFrame
        /\ (status' = "ok" /\ last'.op = "read") =>
                \A b \in Addresses : is_some(cache[b]) => cache'[b] = cache[b] ]_vars

\* C13 amended: a read changes no root, tag or frame and makes nothing
\* Dirty; it changes the cache only at the address read, by installing a
\* CleanFresh entry if none is cached, or by filling the code, ABI and
\* storage-cell caches inside the cached record, whose nonce, storage root,
\* hashes and cached cells stay as they were.
C13_ReadOnlyFills ==
    [][ /\ ReadFrame
        /\ (status' = "ok" /\ last'.op = "read") =>
                LET a == unwrap(last'.arg)
                IN  /\ \A b \in Addresses \ {a} : cache'[b] = cache[b]
                    /\ is_some(cache[a]) =>
                        /\ Core(cache'[a]) = Core(cache[a])
                        /\ \A k \in Keys :
                                Cells(cache[a])[k] # NoCell
                                    => Cells(cache'[a])[k] = Cells(cache[a])[k]
                        /\ ReadSurface(Eng') = ReadSurface(Eng) ]_vars

\* C13 witness: inside a checkpoint a read has loaded the code of a clean
\* account into its cached record.
C13_Witness ==
    /\ status = "ok" /\ last.op = "read" /\ checkpoints # <<>>
    /\ LET e == cache[unwrap(last.arg)]
       IN  /\ is_some(e) /\ unwrap(e).state = "CleanFresh"
           /\ is_some(unwrap(e).account)
           /\ unwrap(unwrap(e).account).code_cache \notin {None, Some(EMPTY_BYTES)}

\* C14: a read does not create an account: exists stays as it was on every
\* address, also after a commit.  An account that require has materialised
\* and nothing has modified exists at once and is written by commit() as a
\* null account: the reopened engine reports exists true and
\* exists_and_not_null false.
C14_NullAccountRule ==
    [][ /\ (status' = "ok" /\ last'.op = "read") =>
            /\ ExistsReads(Eng') = ExistsReads(Eng)
            /\ commit_into(Eng').root = commit_into(Eng).root
        /\ (status' = "ok" /\ last'.op = "require") =>
            LET a == unwrap(last'.arg)
            IN  /\ exists(Eng', a).r
                /\ (checkpoints' = <<>> /\ ~exists(Eng, a).r) =>
                    LET after == Reopen(unwrap(commit(Eng')))
                    IN  exists(after, a).r /\ ~exists_and_not_null(after, a).r
        /\ (status' = "ok" /\ last'.op = "commit") =>
            \A a \in DirtyAddresses(Eng) :
                ( /\ is_some(unwrap(cache[a]).account)
                  /\ Account_is_null(Handle(Eng, a), account_start_nonce)
                  /\ Handle(Eng, a).code_filth = "Clean"
                  /\ Handle(Eng, a).abi_filth = "Clean" )
                => ( /\ exists(Reopen(Eng'), a).r
                     /\ ~exists_and_not_null(Reopen(Eng'), a).r ) ]_vars

\* C14 witness: require has materialised an address the trie does not hold,
\* as a null account, with no checkpoint open.
C14_Witness ==
    /\ status = "ok" /\ last.op = "require" /\ checkpoints = <<>>
    /\ LET a == unwrap(last.arg)
       IN  /\ root[a] = None
           /\ cache[a] = Some(AccountEntry_new_dirty(Some(Account_new_basic(account_start_nonce))))

\* C15: inc_nonce(a) makes nonce(a) one greater than it was; on an address
\* that did not exist (not in the trie, cached as absent, or killed) it
\* leaves a basic account with nonce start_nonce + 1.
C15_IncNonceAddsOne ==
    [][ (status' = "ok" /\ last'.op = "inc_nonce") =>
            LET a == unwrap(last'.arg)
            IN  /\ nonce(Eng', a).r = nonce(Eng, a).r + 1
                /\ ~exists(Eng, a).r =>
                    /\ nonce(Eng', a).r = account_start_nonce + 1
                    /\ cache'[a] = Some(AccountEntry_new_dirty(Some(
                            Account_inc_nonce(Account_new_basic(account_start_nonce))))) ]_vars

\* C15 witness: inc_nonce has recreated, as a basic account, an address
\* that the trie holds with storage and that was killed in the cache.
C15_Witness ==
    /\ status = "ok" /\ last.op = "inc_nonce"
    /\ LET a == unwrap(last.arg)
       IN  /\ is_some(root[a])
           /\ unwrap(root[a]).storage_root # EmptyStorage
           /\ cache[a] = Some(AccountEntry_new_dirty(Some(
                   Account_inc_nonce(Account_new_basic(account_start_nonce)))))

\* C16: after new_contract(a, off) the entry of a is Dirty and holds a fresh
\* record: nonce start_nonce + off, empty code and ABI, empty storage,
\* whatever a held before; the reads of a return the fresh record's values.
C16_NewContractReplaces ==
    [][ (status' = "ok" /\ last'.op = "new_contract") =>
            LET a == unwrap(last'.arg)
            IN  \E off \in NonceOffsets :
                    /\ cache'[a] = Some(AccountEntry_new_dirty(Some(
                            Account_new_contract(account_start_nonce + off))))
                    /\ ReadSurface(Eng')[a] =
                            [exists |-> TRUE,
                             exists_and_not_null |-> off # 0,
                             nonce |-> account_start_nonce + off,
                             storage_root |-> Some(EmptyStorage),
                             storage_at |-> [k \in Keys |-> 0],
                             code |-> Some(EMPTY_BYTES),
                             code_hash |-> HASH_EMPTY,
                             abi |-> Some(EMPTY_BYTES),
                             abi_hash |-> HASH_EMPTY] ]_vars

\* C16 witness: inside a checkpoint new_contract has replaced a cached entry
\* that held an account with code and a storage cell.
C16_Witness ==
    /\ status = "ok" /\ last.op = "new_contract" /\ checkpoints # <<>>
    /\ LET slot == Top(Eng)[unwrap(last.arg)]
       IN  /\ is_some(slot) /\ is_some(unwrap(slot))
           /\ is_some(unwrap(unwrap(slot)).account)
           /\ LET old == unwrap(unwrap(unwrap(slot)).account)
              IN  old.code_hash # HASH_EMPTY /\ old.storage_root # EmptyStorage

\* C17: a clone has the root of the original, no checkpoint, and exactly the
\* original's Dirty entries, each with its record and its storage cells;
\* CleanFresh and Committed entries are not copied.
C17_CloneTakesDirtyEntries ==
    [][ (status' = "ok" /\ last'.op = "clone") =>
            LET c == unwrap(twin')
            IN  /\ c.root = root
                /\ c.account_start_nonce = account_start_nonce
                /\ c.checkpoints = <<>>
                /\ \A a \in Addresses :
                        IF a \in DirtyAddresses(Eng)
                        THEN /\ Core(c.cache[a]) = Core(cache[a])
                             /\ Cells(c.cache[a]) = Cells(cache[a])
                        ELSE c.cache[a] = None ]_vars

\* C17 witness: an engine with an open checkpoint, a Dirty entry and a clean
\* entry has been cloned.
C17_Witness ==
    /\ status = "ok" /\ last.op = "clone" /\ checkpoints # <<>>
    /\ DirtyAddresses(Eng) # {}
    /\ \E a \in Addresses \ DirtyAddresses(Eng) : is_some(cache[a])

\* engine s with everything the backend `other` holds also in its backend
WithBackend(s, other) ==
    [s EXCEPT !.db = [roots |-> s.db.roots \cup other.roots,
                      blobs |-> s.db.blobs \cup other.blobs]]

C19_CheckpointBasic ==
    [][ ( /\ status' = "ok"
          /\ last'.op \in {"discard_checkpoint", "revert_to_checkpoint"}
          /\ last'.run.pure /\ last'.run.addrs # <<>>
          /\ is_some(last'.snap) ) =>
            LET a == last'.run.addrs[1]
                n == Len(last'.run.addrs)
                before == unwrap(last'.snap)[a].nonce
            IN  nonce(Eng', a).r =
                    IF last'.op = "discard_checkpoint" THEN before + n ELSE before ]_vars

\* C19 witness: two inc_nonce(a) on an address that was already Dirty before
\* the checkpoint have been reverted.
C19_Witness ==
    /\ status = "ok" /\ last.op = "revert_to_checkpoint"
    /\ last.run.pure /\ Len(last.run.addrs) = 2
    /\ is_some(last.snap)
    /\ LET e == cache[last.run.addrs[1]]
       IN  is_some(e) /\ unwrap(e).state = "Dirty" /\ is_some(unwrap(e).account)

Mutations ==
    {"inc_nonce", "set_storage", "init_code", "reset_code", "init_abi", "reset_abi",
     "new_contract", "kill_account", "require"}

\* C20: after inc_nonce, a set_storage that changes the value, init_code,
\* reset_code, init_abi, reset_abi, new_contract or kill_account on a (and
\* after require), the entry of a is Dirty and the top frame, if there is
\* one, has a slot for a.  An entry becomes Dirty only in such a step, at its
\* own address, or in a revert_to_checkpoint whose slot held a Dirty entry.
C20_Dirtiness ==
    [][ status' = "ok" =>
        /\ (last'.op \in Mutations) =>
            LET a == unwrap(last'.arg)
                changes == last'.op = "set_storage" =>
                            \E k \in Keys, v \in Values :
                                /\ Eng' = set_storage(Eng, a, k, v)
                                /\ storage_at(Eng, a, k).r # v
            IN  changes =>
                    /\ a \in DirtyAddresses(Eng')
                    /\ checkpoints' # <<>> => is_some(Top(Eng')[a])
        /\ \A b \in DirtyAddresses(Eng') \ DirtyAddresses(Eng) :
            \/ last'.op \in Mutations /\ last'.arg = Some(b)
            \/ /\ last'.op = "revert_to_checkpoint"
               /\ checkpoints # <<>>
               /\ is_some(Top(Eng)[b]) /\ is_some(unwrap(Top(Eng)[b]))
               /\ unwrap(unwrap(Top(Eng)[b])).state = "Dirty" ]_vars

\* C20 witness: inside a nested checkpoint reset_code has made an entry Dirty
\* whose slot is in the top frame and not in the frame below.
C20_Witness ==
    /\ status = "ok" /\ last.op = "reset_code" /\ Len(checkpoints) = 2
    /\ LET a == unwrap(last.arg)
       IN  /\ a \in DirtyAddresses(Eng)
           /\ is_some(checkpoints[2][a])
           /\ ~is_some(checkpoints[1][a])

\* C21: in every state, every cached account record that holds its code
\* blob has code_hash equal to the hash of that blob, and every one that
\* holds its ABI blob has abi_hash equal to the hash of that blob.
C21_BlobHashesMatch ==
    status = "ok" =>
        \A a \in Addresses :
            (is_some(cache[a]) /\ is_some(unwrap(cache[a]).account)) =>
                LET acc == Handle(Eng, a)
                IN  /\ is_some(acc.code_cache) =>
                            acc.code_hash = Keccak(unwrap(acc.code_cache))
                    /\ is_some(acc.abi_cache) =>
                            acc.abi_hash = Keccak(unwrap(acc.abi_cache))

\* the receipt errors, one for each kind of VM error
ReceiptErrors == {"ReceiptError::" \o k : k \in EvmErrorKinds}

\* C22: apply returns Ok with a receipt whenever transact returned Ok, with
\* or without a VM exception; the receipt's error is empty without an
\* exception and otherwise the receipt error named as the VM error's kind,
\* different kinds giving different errors; an Err of transact is passed on.
\* apply leaves the checkpoint stack and the cache as transact left them:
\* the sender's nonce stays raised and its entry Dirty.
C22_ApplyMapsVmErrors ==
    [][ (status' = "ok" /\ last'.op = "apply") =>
            LET vm == unwrap(last'.vm)
                res == unwrap(last'.result)
                a == unwrap(last'.arg)
            IN  /\ res.ok = vm.ok
                /\ vm.ok =>
                    LET receipt == unwrap(res.outcome).receipt
                    IN  /\ is_some(res.outcome)
                        /\ receipt.account_nonce = vm.account_nonce
                        /\ is_some(receipt.error) = is_some(vm.exception)
                        /\ is_some(vm.exception) =>
                            /\ unwrap(receipt.error) \in ReceiptErrors
                            /\ unwrap(receipt.error) =
                                    "ReceiptError::" \o unwrap(vm.exception).kind
                        /\ nonce(Eng', a).r = nonce(Eng, a).r + 1
                        /\ a \in DirtyAddresses(Eng')
                /\ ~vm.ok => (~is_some(res.outcome) /\ cache' = cache)
                /\ Len(checkpoints') = Len(checkpoints)
                /\ \A i \in 1..Len(checkpoints) : \A b \in Addresses :
                        is_some(checkpoints[i][b]) => checkpoints'[i][b] = checkpoints[i][b] ]_vars

\* C22 witness: inside a checkpoint apply returned Ok with the receipt error
\* Reverted, and the storage cell the transaction wrote is still in the cache.
C22_Witness ==
    /\ status = "ok" /\ last.op = "apply" /\ checkpoints # <<>>
    /\ unwrap(last.result).ok
    /\ unwrap(unwrap(last.result).outcome).receipt.error = Some("ReceiptError::Reverted")
    /\ LET a == unwrap(last.arg)
       IN  /\ a \in DirtyAddresses(Eng)
           /\ Cells(cache[a]) # EmptyOverlay

\* C23: after a successful commit() no entry is Dirty.  Every entry that was
\* Dirty is Committed; its address holds the encoding of its record in the
\* top trie if its account is present and is not in the top trie if its
\* account is absent.  Every other entry stays as it was and its address
\* keeps what the top trie held.
C23_CommitSettlesDirty ==
    [][ (status = "ok" /\ status' = "ok" /\ last'.op = "commit") =>
            /\ DirtyAddresses(Eng') = {}
            /\ \A a \in Addresses :
                IF a \in DirtyAddresses(Eng)
                THEN /\ Tags(Eng')[a] = Some("Committed")
                     /\ is_some(unwrap(cache'[a]).account) = is_some(unwrap(cache[a]).account)
                     /\ IF is_some(unwrap(cache[a]).account)
                        THEN root'[a] = Some(Account_rlp(Handle(Eng', a)))
                        ELSE root'[a] = None
                ELSE /\ cache'[a] = cache[a]
                     /\ root'[a] = root[a] ]_vars

\* C23 witness: one commit has written the record of one Dirty entry and
\* removed the address of another Dirty entry, which the trie held.
C23_Witness ==
    /\ status = "ok" /\ last.op = "commit"
    /\ last.dirty = Addresses
    /\ \E a, b \in Addresses :
        /\ cache[a] = Some([account |-> None, state |-> "Committed"])
        /\ root[a] = None
        /\ \E r \in db.roots : is_some(r[a])
        /\ is_some(root[b])
        /\ is_some(unwrap(cache[b]).account)
        /\ unwrap(cache[b]).state = "Committed"

Kept == 1..(IF Len(checkpoints') < Len(checkpoints) THEN Len(checkpoints') ELSE Len(checkpoints))

\* C25: a slot, once in a frame, stays as it is while the frame is on the
\* stack: no mutation and no discard of a child frame replaces it.  A
\* mutation puts a slot only where the top frame has none, and the slot is
\* the entry as it was before the mutation: the cached entry, the absent
\* marker when new_contract or kill_account finds nothing cached, or the
\* clean entry the require path has just loaded.  A discard gives the parent
\* the child's slot only where the parent has none.
C25_FirstSlotWins ==
    [][ status' = "ok" =>
        /\ \A i \in Kept : \A a \in Addresses :
                is_some(checkpoints[i][a]) => checkpoints'[i][a] = checkpoints[i][a]
        /\ (last'.op \in Mutations /\ checkpoints # <<>>) =>
                LET a == unwrap(last'.arg)
                    slot == Top(Eng')[a]
                IN  (~is_some(Top(Eng)[a]) /\ is_some(slot)) =>
                        IF is_some(cache[a])
                        THEN Core(unwrap(slot)) = Core(cache[a])
                        ELSE IF last'.op \in {"new_contract", "kill_account"}
                        THEN unwrap(slot) = None
                        ELSE Core(unwrap(slot)) =
                                Core(Some(AccountEntry_new_clean(TrieGet(Eng, a))))
        /\ (last'.op = "discard_checkpoint" /\ Len(checkpoints) >= 2) =>
                \A a \in Addresses :
                    ~is_some(checkpoints[Len(checkpoints) - 1][a])
                        => Top(Eng')[a] = Top(Eng)[a] ]_vars

\* C25 witness: a frame and its child both held a slot for an account that
\* inc_nonce changed in each, and the child has been discarded: the slot
\* left is two nonces behind the cache.
C25_Witness ==
    /\ status = "ok" /\ last.op = "discard_checkpoint" /\ Len(checkpoints) = 1
    /\ \E a \in Addresses :
        /\ is_some(Top(Eng)[a]) /\ is_some(unwrap(Top(Eng)[a]))
        /\ is_some(unwrap(unwrap(Top(Eng)[a])).account)
        /\ a \in DirtyAddresses(Eng) /\ is_some(unwrap(cache[a]).account)
        /\ Handle(Eng, a).nonce = unwrap(unwrap(unwrap(Top(Eng)[a])).account).nonce + 2

\* C26: revert_to_checkpoint() gives every entry that was cached at the
\* checkpoint() and has a slot in the reverted frame the tag it had at the
\* checkpoint(); an entry that was Dirty then has its nonce, storage root,
\* hashes and account presence of then.
C26_RevertRestoresTags ==
    [][ ( /\ status' = "ok" /\ last'.op = "revert_to_checkpoint"
          /\ is_some(last'.mark) ) =>
            LET before == unwrap(last'.mark)
            IN  \A a \in Addresses :
                    (is_some(before[a]) /\ is_some(Top(Eng)[a])) =>
                        /\ Tags(Eng')[a] = Some(unwrap(before[a]).state)
                        /\ unwrap(before[a]).state = "Dirty" =>
                                Core(cache'[a]) = Core(before[a]) ]_vars

\* C27: after entry.overwrite_with(other), as revert_to_checkpoint() calls
\* it on an occupied cache entry with the saved entry of the slot: the tag is
\* other's, the entry holds an account exactly when other does, its nonce,
\* storage root and hashes are other's, and when both held an account the
\* cells of other win and the cells only the entry had are kept.
C27_OverwriteWith ==
    [][ (status' = "ok" /\ last'.op = "revert_to_checkpoint" /\ checkpoints # <<>>) =>
            \A a \in Addresses :
                LET slot == Top(Eng)[a]
                IN  (is_some(slot) /\ is_some(unwrap(slot)) /\ is_some(cache[a])) =>
                        LET entry == unwrap(cache[a])
                            other == unwrap(unwrap(slot))
                            after == unwrap(cache'[a])
                        IN  /\ after = AccountEntry_overwrite_with(entry, other)
                            /\ after.state = other.state
                            /\ is_some(after.account) = is_some(other.account)
                            /\ Core(Some(after)) = Core(Some(other))
                            /\ (is_some(entry.account) /\ is_some(other.account)) =>
                                \A k \in Keys :
                                    Cells(Some(after))[k] =
                                        IF Cells(Some(other))[k] # NoCell
                                        THEN Cells(Some(other))[k]
                                        ELSE Cells(Some(entry))[k] ]_vars

\* C28: when revert_to_checkpoint() pops the absent marker for a, the entry
\* of a is removed from the cache if it is Dirty and is left as it is
\* otherwise; when it pops a saved entry for a and the cache has no entry
\* for a, the saved entry is put in the cache as it is.
C28_RevertAbsentMarker ==
    [][ (status' = "ok" /\ last'.op = "revert_to_checkpoint" /\ checkpoints # <<>>) =>
            \A a \in Addresses :
                LET slot == Top(Eng)[a]
                IN  /\ slot = Some(None) =>
                        IF is_some(cache[a]) /\ unwrap(cache[a]).state = "Dirty"
                        THEN cache'[a] = None
                        ELSE cache'[a] = cache[a]
                    /\ (is_some(slot) /\ is_some(unwrap(slot)) /\ cache[a] = None) =>
                        cache'[a] = unwrap(slot) ]_vars

\* C28 witness: a revert popped the absent marker of an address whose entry
\* was by then CleanFresh, and left the entry in the cache.
C28_Witness ==
    /\ status = "ok" /\ last.op = "revert_to_checkpoint" /\ is_some(last.frame)
    /\ \E a \in Addresses :
        /\ unwrap(last.frame)[a] = Some(None)
        /\ is_some(cache[a]) /\ unwrap(cache[a]).state = "CleanFresh"

\* C29: in checkpoint(); A; checkpoint(); B; discard_checkpoint();
\* revert_to_checkpoint() the revert leaves every read as it was before the
\* first checkpoint().
C29_DiscardedChildIsReverted ==
    [][ ( /\ status' = "ok"
          /\ last'.op = "revert_to_checkpoint" /\ last'.depth = 1
          /\ last.op = "discard_checkpoint" /\ last.depth = 2
          /\ is_some(last'.snap) )
        => ReadSurface(Eng') = unwrap(last'.snap) ]_vars

\* C30: checkpoint() puts one empty frame on top of the frames that are
\* there; revert_to_checkpoint() takes the top frame off and leaves the
\* others as they are; discard_checkpoint() takes the top frame off, leaves
\* the frames below its parent as they are and gives the parent only slots
\* of the frame taken off; every other operation leaves the number and the
\* order of the frames, a mutation changing nothing but the top frame, by
\* adding a slot for its address.
C30_StackIsLifo ==
    [][ (status = "ok" /\ status' \in {"ok", "panicked"}) =>
        LET n == Len(checkpoints)
        IN  CASE last'.op = "checkpoint" ->
                    checkpoints' = Append(checkpoints, EmptyFrame)
              [] last'.op = "revert_to_checkpoint" ->
                    checkpoints' = IF n = 0 THEN <<>> ELSE SubSeq(checkpoints, 1, n - 1)
              [] last'.op = "discard_checkpoint" ->
                    /\ Len(checkpoints') = IF n = 0 THEN 0 ELSE n - 1
                    /\ \A i \in 1..(n - 2) : checkpoints'[i] = checkpoints[i]
                    /\ n >= 2 =>
                        \A a \in Addresses :
                            checkpoints'[n - 1][a] \in {checkpoints[n - 1][a], checkpoints[n][a]}
              [] last'.op \in Mutations ->
                    /\ Len(checkpoints') = n
                    /\ \A i \in 1..(n - 1) : checkpoints'[i] = checkpoints[i]
                    /\ n >= 1 =>
                        \A a \in Addresses :
                            \/ checkpoints'[n][a] = checkpoints[n][a]
                            \/ /\ a = unwrap(last'.arg)
                               /\ ~is_some(checkpoints[n][a])
                               /\ is_some(checkpoints'[n][a])
              [] OTHER -> checkpoints' = checkpoints ]_vars

\* C30 witness: of two frames that each held a slot, the revert has taken
\* off the one pushed last and left the one pushed first.
C30_Witness ==
    /\ status = "ok" /\ last.op = "revert_to_checkpoint" /\ last.depth = 2
    /\ Len(checkpoints) = 1 /\ is_some(last.frame)
    /\ \E a \in Addresses :
        /\ is_some(checkpoints[1][a])
        /\ is_some(unwrap(last.frame)[a])
        /\ unwrap(last.frame)[a] # checkpoints[1][a]

\* what the reads return for an address without an account
AbsentReads(start_nonce) ==
    [exists |-> FALSE,
     exists_and_not_null |-> FALSE,
     nonce |-> start_nonce,
     storage_root |-> None,
     storage_at |-> [k \in Keys |-> 0],
     code |-> None,
     code_hash |-> HASH_EMPTY,
     abi |-> None,
     abi_hash |-> HASH_EMPTY]

\* C31: while the cache entry of a holds no account, every read of a answers
\* as for an absent account (exists false, the start nonce, no code and no
\* ABI, the empty hashes, zero for every storage cell) and leaves the engine
\* as it is, whatever the top trie holds for a.
C31_AbsentEntryAnswers ==
    status = "ok" =>
        \A a \in Addresses :
            (is_some(cache[a]) /\ ~is_some(unwrap(cache[a]).account)) =>
                /\ ReadSurface(Eng)[a] = AbsentReads(account_start_nonce)
                /\ ~exists_and_has_code_or_nonce(Eng, a).r
                /\ code_size(Eng, a).r = None /\ abi_size(Eng, a).r = None
                /\ exists(Eng, a).s = Eng /\ nonce(Eng, a).s = Eng
                /\ code(Eng, a).s = Eng /\ abi(Eng, a).s = Eng
                /\ \A k \in Keys : storage_at(Eng, a, k).s = Eng

\* C31 witness: the entry of a holds no account while the top trie holds a
\* record for a with code and a storage cell.
C31_Witness ==
    /\ status = "ok"
    /\ \E a \in Addresses :
        /\ is_some(cache[a]) /\ ~is_some(unwrap(cache[a]).account)
        /\ is_some(root[a])
        /\ unwrap(root[a]).code_hash # HASH_EMPTY
        /\ unwrap(root[a]).storage_root # EmptyStorage

\* storage_at answers from the overlay cell when the cached record has one,
\* and set_storage(a, k, v) leaves storage_at(a, k) = v
OverlayFirst ==
    /\ \A a \in Addresses, k \in Keys :
            Cells(cache'[a])[k] # NoCell => storage_at(Eng', a, k).r = Cells(cache'[a])[k]
    /\ last'.op = "set_storage" =>
            \A k \in Keys, v \in Values :
                Eng' = set_storage(Eng, unwrap(last'.arg), k, v)
                    => storage_at(Eng', unwrap(last'.arg), k).r = v

\* the cells of the cached records are read as before the step, unless the
\* step is one of `ending` on that address, or a revert
CellsLast(ending) ==
    \A a \in Addresses, k \in Keys :
        ( /\ Cells(cache[a])[k] # NoCell
          /\ ~(last'.op \in ending /\ last'.arg = Some(a))
          /\ last'.op # "revert_to_checkpoint" )
        => storage_at(Eng', a, k).r = storage_at(Eng, a, k).r

\* C32 as claimed: storage_at(a, k) returns the overlay cell when the cached
\* record of a has one; after set_storage(a, k, v) it returns v, and goes on
\* returning it until k is written again or a is replaced, killed or reverted.
C32_OverlayUntilRewritten ==
    [][ status' = "ok" =>
            /\ OverlayFirst
            /\ last'.op # "clear" => CellsLast({"set_storage", "new_contract", "kill_account"})
            /\ last'.op = "clear" =>
                \A a \in Addresses, k \in Keys :
                    Cells(cache[a])[k] # NoCell
                        => storage_at(Eng', a, k).r = storage_at(Eng, a, k).r ]_vars

\* C32 amended: the same, until k is written again, a is replaced, killed or
\* reverted, or clear() empties the cache: after clear() storage_at(a, k) is
\* the value of the per-account trie at the current root.
C32_OverlayUntilRewrittenOrCleared ==
    [][ status' = "ok" =>
            /\ OverlayFirst
            /\ last'.op # "clear" => CellsLast({"set_storage", "new_contract", "kill_account"})
            /\ last'.op = "clear" =>
                \A a \in Addresses, k \in Keys :
                    storage_at(Eng', a, k).r =
                        IF is_some(root[a]) THEN unwrap(root[a]).storage_root[k] ELSE 0 ]_vars

\* C32 witness: a value written by set_storage and not committed has been
\* read through an operation on the same account: the overlay cell differs
\* from the cell of the account's trie, and the last operation was inc_nonce.
C32_Witness ==
    /\ status = "ok" /\ last.op = "inc_nonce"
    /\ LET a == unwrap(last.arg)
       IN  /\ is_some(cache[a]) /\ is_some(unwrap(cache[a]).account)
           /\ \E k \in Keys :
                /\ Cells(cache[a])[k] # NoCell
                /\ Cells(cache[a])[k] # Handle(Eng, a).storage_root[k]


\* C38: the root changes only inside commit(): every step that is not a
\* commit (nor the construction of an engine by from_existing) leaves root()
\* as it was, so drop() hands back the root the engine held since its last
\* successful commit or its construction; a failed commit leaves it too, and
\* clear() leaves the checkpoint stack as it was.
C38_RootChangesOnlyInCommit ==
    [][ /\ last'.op \notin {"commit", "from_existing"} => root' = root
        /\ (last'.op = "commit" /\ status' # "ok") => root' = root
        /\ last'.op = "drop" => (drop(Eng).root = root /\ root' = root)
        /\ last'.op = "clear" =>
                (checkpoints' = checkpoints /\ clear(Eng).root = root) ]_vars

\* C38 witness: clear() ran inside a checkpoint that holds an undo slot, on
\* an engine whose root is the result of a commit that wrote an account.
C38_Witness ==
    /\ status = "ok" /\ last.op = "clear"
    /\ checkpoints # <<>> /\ Top(Eng) # EmptyFrame
    /\ root \notin {EmptyTrie, GenesisTrie(account_start_nonce)}


\* the engine as it was right after the checkpoint() that opened the top frame
AtCheckpoint ==
    [Eng EXCEPT !.cache = snaps[Len(snaps)].cache,
                !.checkpoints = Append(Butlast(checkpoints), EmptyFrame)]

\* C35: a reverted kill is not a kill: when the cache entry of a holds an
\* account at checkpoint(), then checkpoint(); kill_account(a);
\* revert_to_checkpoint() leaves exists(a) true and nonce, code and
\* storage_at of a as they were read before the checkpoint.
C35_RevertedKillIsNotAKill ==
    [][ ( /\ last.op = "kill_account" /\ last'.op = "revert_to_checkpoint"
          /\ status' = "ok" /\ checkpoints # <<>> /\ snaps # <<>>
          /\ is_some(AtCheckpoint.cache[unwrap(last.arg)])
          /\ is_some(unwrap(AtCheckpoint.cache[unwrap(last.arg)]).account)
          /\ Eng = kill_account(AtCheckpoint, unwrap(last.arg)) )
        => LET a == unwrap(last.arg)
               before == snaps[Len(snaps)].reads[a]
               after == ReadSurface(Eng')[a]
           IN  /\ after.exists
               /\ after.nonce = before.nonce
               /\ after.code = before.code
               /\ after.storage_at = before.storage_at ]_vars

\* C36: reverted work is never committed: when revert_to_checkpoint() pops
\* the outermost checkpoint, a commit() of the engine it leaves produces the
\* root (the contents of the top trie) that a commit() of the engine as it
\* was at checkpoint() produces.
C36_RevertedWorkIsNotCommitted ==
    [][ ( /\ last'.op = "revert_to_checkpoint" /\ status' = "ok"
          /\ Len(checkpoints) = 1 /\ Len(snaps) = 1 )
        => LET start == [AtCheckpoint EXCEPT !.checkpoints = <<>>]
           IN  /\ is_some(commit(Eng')) /\ is_some(commit(start))
               /\ unwrap(commit(Eng')).root = unwrap(commit(start)).root ]_vars


RequirePath == {"inc_nonce", "set_storage", "init_code", "reset_code", "init_abi", "reset_abi"}

\* the step is a require-path operation that records the undo slot of an
\* address whose cache entry, once loaded, holds no account
NotesAccountless(a) ==
    /\ last'.op \in RequirePath /\ last'.arg = Some(a)
    /\ checkpoints # <<>> /\ ~is_some(Top(Eng)[a]) /\ is_some(Top(Eng')[a])
    /\ IF is_some(cache[a]) THEN ~is_some(unwrap(cache[a]).account)
       ELSE ~is_some(TrieGet(Eng, a))

\* the step is the revert of checkpoint(); inc_nonce(a) on an address that
\* was neither cached nor in the trie
RevertsFirstIncNonce(a) ==
    /\ last.op = "inc_nonce" /\ last.arg = Some(a)
    /\ last'.op = "revert_to_checkpoint" /\ status' = "ok"
    /\ checkpoints # <<>> /\ snaps # <<>>
    /\ ~is_some(AtCheckpoint.cache[a]) /\ ~is_some(TrieGet(AtCheckpoint, a))
    /\ Eng = inc_nonce(AtCheckpoint, a)

\* C40 as claimed: in the require path the undo slot recorded for an address
\* whose cache entry holds no account is the absent marker, so that after
\* checkpoint(); inc_nonce(a); revert_to_checkpoint() on an address that was
\* uncached and not in the trie the cache holds no entry for a.
C40_RequireRecordsAbsentMarker ==
    [][ \A a \in Addresses :
            /\ NotesAccountless(a) => Top(Eng')[a] = Some(None)
            /\ RevertsFirstIncNonce(a) => ~is_some(cache'[a]) ]_vars

\* C40 amended: in the require path the undo slot recorded for an address
\* whose cache entry holds no account is a copy of that entry (no account,
\* the entry's tag; CleanFresh when the entry was just loaded), never the
\* absent marker: after checkpoint(); inc_nonce(a); revert_to_checkpoint() on
\* an address that was uncached and not in the trie the cache holds a
\* CleanFresh entry without account for a, which reads as an absent account.
C40_RequireRecordsAccountlessEntry ==
    [][ \A a \in Addresses :
            /\ NotesAccountless(a) =>
                    Top(Eng')[a] =
                        Some(Some([account |-> None,
                                   state |-> IF is_some(cache[a])
                                             THEN unwrap(cache[a]).state
                                             ELSE "CleanFresh"]))
            /\ RevertsFirstIncNonce(a) =>
                    /\ cache'[a] = Some([account |-> None, state |-> "CleanFresh"])
                    /\ ReadSurface(Eng')[a] = AbsentReads(account_start_nonce)
                    /\ DirtyAddresses(Eng') = DirtyAddresses(AtCheckpoint) ]_vars

\* C40 witness: the revert of checkpoint(); inc_nonce(a) on an address that
\* was neither cached nor in the trie has run: the popped frame held an
\* entry without account for a.
C40_Witness ==
    /\ status = "ok" /\ last.op = "revert_to_checkpoint" /\ is_some(last.frame)
    /\ \E a \in Addresses :
        /\ ~is_some(root[a])
        /\ unwrap(last.frame)[a] = Some(Some([account |-> None, state |-> "CleanFresh"]))
        /\ is_some(cache[a])


\* C37: storage reads after a revert are not stale: when the cached record
\* of a has the committed cell k = v in its trie and no cell for k in its
\* overlay, checkpoint(); new_contract(a, 0); storage_at(a, k);
\* revert_to_checkpoint() leaves storage_at(a, k) returning v.
C37_NoStaleCellAfterRevert ==
    [][ \A a \in Addresses, k \in Keys :
          ( /\ last'.op = "revert_to_checkpoint" /\ status' = "ok"
            /\ checkpoints # <<>> /\ snaps # <<>>
            /\ is_some(AtCheckpoint.cache[a])
            /\ is_some(unwrap(AtCheckpoint.cache[a]).account)
            /\ Cells(AtCheckpoint.cache[a])[k] = NoCell
            /\ Eng = storage_at(new_contract(AtCheckpoint, a, 0), a, k).s )
          => storage_at(Eng', a, k).r = storage_at(AtCheckpoint, a, k).r ]_vars


\* the outcome the last operation reported
TrieErrorAt(a) ==
    /\ last'.arg = Some(a) /\ is_some(last'.result)
    /\ unwrap(last'.result).err = "trie"

\* C33: when loading an address from the top trie fails inside a read or
\* inside inc_nonce, set_storage, init_code, reset_code, init_abi or
\* reset_abi, the operation returns the error and the engine is as before
\* the call: no cache entry added or retagged, no undo slot recorded, the
\* root and the backend unchanged, so that every operation on another
\* address gives what it would have given without the failed call.  The
\* load is only attempted for an uncached address, and no call panics.
C33_FailedLoadChangesNothing ==
    [][ /\ \A a \in Addresses :
            TrieErrorAt(a) =>
                /\ Eng' = Eng /\ status' = status
                /\ ~is_some(cache[a]) /\ unwrap(last'.result).fault
                /\ \A b \in Addresses \ {a} :
                        /\ inc_nonce(Eng', b) = inc_nonce(Eng, b)
                        /\ ReadSurface(Eng')[b] = ReadSurface(Eng)[b]
        /\ (is_some(last'.result) /\ last'.op # "commit") =>
            /\ unwrap(last'.result).err # "panic"
            /\ (unwrap(last'.result).fault /\ ~is_some(cache[unwrap(last'.arg)]))
                    => unwrap(last'.result).err = "trie"
        /\ status' = "ok" => TrieOpens(Eng') ]_vars

\* C33 witness: a mutation failed on a trie error inside a checkpoint, on an
\* address the trie holds, while another address has a Dirty entry and an
\* undo slot.
C33_Witness ==
    /\ status = "ok" /\ is_some(last.result)
    /\ unwrap(last.result).err = "trie"
    /\ last.op \in RequirePath
    /\ checkpoints # <<>>
    /\ LET a == unwrap(last.arg)
       IN  /\ is_some(root[a]) /\ ~is_some(cache[a]) /\ ~is_some(Top(Eng)[a])
           /\ \E b \in Addresses \ {a} :
                /\ is_some(cache[b]) /\ AccountEntry_is_dirty(unwrap(cache[b]))
                /\ is_some(Top(Eng)[b])


\* C39: when a per-account storage commit fails in the first phase of
\* commit(), commit() returns the error before any write to the top trie:
\* the root and the tries of the backend are as before, every entry that was
\* Dirty is still Dirty, and no other entry has changed.
C39_FailedStorageCommitKeepsRoot ==
    [][ ( /\ last'.op = "commit" /\ is_some(last'.result)
          /\ unwrap(last'.result).err = "trie" )
        => /\ root' = root /\ db'.roots = db.roots
           /\ status' = status /\ checkpoints' = checkpoints
           /\ DirtyAddresses(Eng) # {}
           /\ DirtyAddresses(Eng') = DirtyAddresses(Eng)
           /\ \A a \in Addresses \ DirtyAddresses(Eng) : cache'[a] = cache[a] ]_vars

\* C39 witness: commit() failed on the storage of one account after the
\* first loop had committed another: that one's code is hashed and stored,
\* its entry is still Dirty and the top trie does not hold it.
C39_Witness ==
    /\ status = "ok" /\ last.op = "commit" /\ is_some(last.result)
    /\ unwrap(last.result).err = "trie"
    /\ Cardinality(last.dirty) = 2
    /\ \E a \in last.dirty :
        /\ is_some(cache[a]) /\ unwrap(cache[a]).state = "Dirty"
        /\ is_some(unwrap(cache[a]).account)
        /\ Handle(Eng, a).code_hash # HASH_EMPTY
        /\ Handle(Eng, a).code_filth = "Clean"
        /\ ~is_some(root[a])


\* C34: no public operation takes a borrow of the cache or of the checkpoint
\* stack that conflicts with one still held: from every reachable state,
\* every public operation runs its borrows without a double borrow and
\* returns with both cells free, the handle of require dropped; require
\* itself returns holding the cache mutably and nothing else.
C34_NoDoubleBorrow ==
    status = "ok" =>
        /\ \A name \in PublicOps, a \in Addresses :
            \A k \in Keys, v \in (IF name = "set_storage" THEN Values ELSE {0}) :
                LET b == BorrowRun(NoBorrows, Borrows(name, Eng, a, k, v))
                IN  ~b.panicked /\ \A c \in Cells2 : b.flags[c] = 0
        /\ \A a \in Addresses :
            LET b == BorrowRun(NoBorrows, require_or_from_borrows(Eng, a))
            IN  /\ ~b.panicked
                /\ b.flags["cache"] = 0 - 1 /\ b.flags["checkpoints"] = 0

\* C34 witness: after a mutation inside a checkpoint, an address is uncached
\* and has no undo slot, so that inc_nonce on it takes every borrow of the
\* require path, the cache being borrowed while the checkpoint stack is.
C34_Witness ==
    /\ status = "ok" /\ checkpoints # <<>> /\ last.op \in RequirePath
    /\ \E a \in Addresses :
        /\ ~is_some(cache[a]) /\ ~is_some(Top(Eng)[a])
        /\ BorrowRun(NoBorrows, Borrows("inc_nonce", Eng, a, "k1", 0)).both
        /\ Len(Borrows("inc_nonce", Eng, a, "k1", 0)) = 10

====
